---- MODULE Spec2Model ----
(***************************************************************************)
(* Model of the resilient fetch-and-cache layer of kemi-api:               *)
(*   - CacheManager (main.py) over ChromaPersistentCache (chroma_cache.py) *)
(*   - debounced_request (main.py), the per-key request coalescer          *)
(*   - MCPManager (mcp_manager.py): rate limiter, circuit breaker, retries *)
(* Time is the integer number of seconds read by time.time() and           *)
(* datetime.utcnow().  Coroutines advance in the atomic steps asyncio      *)
(* gives them: from one suspension point to the next.                      *)
(***************************************************************************)
EXTENDS Integers, Sequences, FiniteSets, TLC

VARIABLES
    now,              \* the wall clock, seconds
    ticks,            \* number of free clock advances taken so far
    cache,            \* CacheManager.cache: key -> (data, timestamp, ttl)
    collection,       \* chroma collection: id -> (document, metadata.timestamp)
    chroma_available, \* ChromaPersistentCache.collection is not None
    stored,           \* history: key -> the last set() made by a caller of the cache
    sets,             \* history: number of set() calls made by callers of the cache
    cache_ret,        \* the last cache operation and its answer; forgotten when the clock advances
    request_locks,    \* main.py _request_locks: key -> asyncio.Lock (locked, FIFO of waiters)
    active_requests,  \* main.py _active_requests: key -> task (named by the caller that created it)
    task,             \* the tasks made by asyncio.create_task(request_func()), by creating caller
    dpc,              \* where each caller of debounced_request is suspended
    dkey,             \* the key of each caller's current debounced_request call
    awaited,          \* the task each suspended caller awaits
    dret,             \* what debounced_request last gave each caller ("exc": it raised)
    dcalls,           \* history: number of debounced_request calls made
    grp_pending,      \* history: per key, the overlapping callers that have not returned yet
    grp_size,         \* history: per key, the number of overlapping callers
    grp_fetches,      \* history: per key, the fetcher executions started for those callers
    grp_results,      \* history: per key, the results those callers were given
    request_queue,    \* MCPManager._request_queue: timestamps of the registered calls
    last_request_time,           \* MCPManager._last_request_time
    global_request_lock,         \* MCPManager._global_request_lock (locked, FIFO of waiters)
    circuit_breaker_open,        \* MCPManager._circuit_breaker_open
    circuit_breaker_opened_at,   \* MCPManager._circuit_breaker_opened_at
    mpc,              \* where each caller of call_tool_with_retry is suspended
    attempt,          \* call_tool_with_retry: the loop variable of each caller
    consecutive_429s, \* call_tool_with_retry: the local counter of each caller
    error_msg,        \* call_tool_with_retry: the class of the error each caller is backing off from
    rl_now,           \* _wait_for_rate_limit: the local `now` of each caller
    wake,             \* the instant at which each caller's asyncio.sleep ends
    mret,             \* the latest return of call_tool_with_retry: caller and result
    mcalls,           \* history: number of call_tool_with_retry calls made
    reg_log,          \* history: the last registered timestamps, oldest first
    rate_limited_run, \* history: RateLimited failures in a row over all attempts of all calls
    fcalls,           \* history: number of calls of the fetching endpoints made
    fkey,             \* the key of each caller's call of get_coins_markets in progress
    fstart,           \* history: the instant at which each caller's call in progress began
    tval,             \* the value each task of fetch_data ended with
    fret              \* the latest return of a fetching endpoint: caller, kind, key, value

cacheVars == <<cache, collection, chroma_available, stored, sets, cache_ret>>

debounceVars == <<request_locks, active_requests, task, dpc, dkey, awaited, dret, dcalls,
                  grp_pending, grp_size, grp_fetches, grp_results>>

mcpVars == <<request_queue, last_request_time, global_request_lock, circuit_breaker_open,
             circuit_breaker_opened_at, mpc, attempt, consecutive_429s, error_msg, rl_now, wake,
             mret,
             mcalls, reg_log, rate_limited_run>>

fetchVars == <<fcalls, fkey, fstart, tval, fret>>

vars == <<now, ticks, cache, collection, chroma_available, stored, sets, cache_ret,
          request_locks, active_requests, task, dpc, dkey, awaited, dret, dcalls,
          grp_pending, grp_size, grp_fetches, grp_results,
          request_queue, last_request_time, global_request_lock, circuit_breaker_open,
          circuit_breaker_opened_at, mpc, attempt, consecutive_429s, error_msg, rl_now, wake,
             mret,
          mcalls, reg_log, rate_limited_run, fcalls, fkey, fstart, tval, fret>>

-----------------------------------------------------------------------------
(* Bounds of the model *)

MaxCacheEvents == 3
NumCallers == 3
MaxCalls == 4
MaxMCPEvents == 3
StartTime == 1000

(* Program constants *)

MaxAgeHours == 1
MaxStaleDays == 1
RefreshTTL == 300
PersistMinTTL == 60
SecondsPerHour == 3600
SecondsPerDay == 86400
MaxRequestsPerMinute == 5
RequestDelay == 8
CircuitBreakerTimeout == 300
MaxRetries == 3
RateWindow == 60
RateWindowBuffer == 10
OpenAfter429s == 2
RateLimitedBackoff == 20
ConnectionBackoff == 5
OtherBackoff == 3

Keys == {"top_gainers_losers_usd_24h_1000", "global_market_data"}

\* main.py CACHE_TTL["top_gainers_losers"], and the 60 s of a cached default answer
CACHE_TTL == 600
DefaultTTL == 60

\* Steps by which the clock may advance between two cache operations.
CacheTickSteps == {60, 300, 1800, 86400}

-----------------------------------------------------------------------------
(* Payloads.  A payload is a response object (a pydantic model), a JSON     *)
(* value, or None.  `empty` is Python truthiness: None, [] and {} are falsy *)

None == [kind |-> "none", body |-> "", empty |-> TRUE]

Payloads ==
    { [kind |-> "model", body |-> "a", empty |-> FALSE],
      [kind |-> "json",  body |-> "[]", empty |-> TRUE] }

\* an exception that leaves a call instead of a value
Exc == [kind |-> "exception", body |-> "", empty |-> FALSE]

Truthy(v) == ~v.empty

\* chroma_cache.py _make_serializable followed by json.dumps / json.loads:
\* a pydantic model comes back as the dict of its fields.
make_serializable(data) ==
    IF data.kind = "model" THEN [data EXCEPT !.kind = "json"] ELSE data

\* A params argument: None when the caller gives none, otherwise a dict, which
\* keeps its (name, value) pairs in the order they were inserted.
NoParams == [given |-> FALSE, items |-> << >>]
Dict(items) == [given |-> TRUE, items |-> items]

\* the parameter names in the order in which json.dumps(sort_keys=True) puts them
SortedNames == <<"duration", "top_coins", "vs_currency">>

Rank(name) == CHOOSE i \in 1..Len(SortedNames) : SortedNames[i] = name

\* json.dumps(params, sort_keys=True): the pairs in the order of their names
RECURSIVE InsertByName(_, _)
InsertByName(pair, items) ==
    IF items = << >> THEN <<pair>>
    ELSE IF Rank(pair[1]) <= Rank(Head(items)[1]) THEN <<pair>> \o items
    ELSE <<Head(items)>> \o InsertByName(pair, Tail(items))

RECURSIVE dumps_sort_keys(_)
dumps_sort_keys(items) ==
    IF items = << >> THEN << >>
    ELSE InsertByName(Head(items), dumps_sort_keys(Tail(items)))

\* (variant: the parameters are dumped in the order the caller gave them)
generate_cache_keyUnsorted(endpoint, params) ==
    <<endpoint, IF params.given THEN params.items ELSE << >> >>

\* chroma_cache.py _generate_cache_key: md5 of "endpoint:parameters", the
\* parameters ({} for None) dumped with sorted keys; the key is the hashed text.
generate_cache_key(endpoint, params) ==
    <<endpoint, dumps_sort_keys(IF params.given THEN params.items ELSE << >>)>>

-----------------------------------------------------------------------------
(* ChromaPersistentCache *)

\* get(endpoint, params, max_age_hours)
\* `fails`: the store raises during the operation (caught at lines 107-109)
ChromaPersistentCache_get_params(coll, avail, endpoint, params, max_age_hours, t, fails) ==
    LET cache_key == generate_cache_key(endpoint, params) IN
    IF ~avail THEN None
    ELSE IF fails THEN None
    ELSE IF cache_key \in DOMAIN coll
            /\ t - coll[cache_key].timestamp < max_age_hours * SecondsPerHour
         THEN coll[cache_key].document
         ELSE None

\* (variant: the error of the store is not caught and leaves get)
ChromaPersistentCache_getUncaught(coll, avail, endpoint, max_age_hours, t, fails) ==
    LET cache_key == generate_cache_key(endpoint, NoParams) IN
    IF ~avail THEN None
    ELSE IF fails THEN Exc
    ELSE IF cache_key \in DOMAIN coll
            /\ t - coll[cache_key].timestamp < max_age_hours * SecondsPerHour
         THEN coll[cache_key].document
         ELSE None

\* get(endpoint, max_age_hours=...), as CacheManager calls it
ChromaPersistentCache_get(coll, avail, endpoint, max_age_hours, t, fails) ==
    ChromaPersistentCache_get_params(coll, avail, endpoint, NoParams, max_age_hours, t, fails)

ChromaPersistentCache_get_stale(coll, avail, endpoint, max_stale_days, t, fails) ==
    LET cache_key == generate_cache_key(endpoint, NoParams) IN
    IF ~avail \/ fails THEN [collection |-> coll, result |-> None, timestamp |-> 0]
    ELSE IF cache_key \in DOMAIN coll
         THEN IF t - coll[cache_key].timestamp < max_stale_days * SecondsPerDay
              THEN [collection |-> coll,
                    result |-> coll[cache_key].document,
                    timestamp |-> coll[cache_key].timestamp]
              ELSE [collection |-> [i \in DOMAIN coll \ {cache_key} |-> coll[i]],
                    result |-> None, timestamp |-> 0]
         ELSE [collection |-> coll, result |-> None, timestamp |-> 0]

\* set(endpoint, data, params)
ChromaPersistentCache_set_params(coll, avail, endpoint, data, params, t, fails) ==
    LET cache_key == generate_cache_key(endpoint, params) IN
    IF ~avail \/ fails THEN coll
    ELSE [i \in DOMAIN coll \cup {cache_key} |->
            IF i = cache_key
            THEN [document |-> make_serializable(data), timestamp |-> t]
            ELSE coll[i]]

\* set(endpoint, data), as CacheManager calls it
ChromaPersistentCache_set(coll, avail, endpoint, data, t, fails) ==
    ChromaPersistentCache_set_params(coll, avail, endpoint, data, NoParams, t, fails)

\* (variant: the sweep also takes the entries that are exactly max_age_days old)
ChromaPersistentCache_clear_expiredInclusive(coll, avail, max_age_days, t, fails) ==
    IF ~avail \/ fails THEN coll
    ELSE LET expired_ids == {i \in DOMAIN coll :
                                coll[i].timestamp <= t - max_age_days * SecondsPerDay}
         IN [i \in DOMAIN coll \ expired_ids |-> coll[i]]

ChromaPersistentCache_clear_expired(coll, avail, max_age_days, t, fails) ==
    IF ~avail \/ fails THEN coll
    ELSE LET expired_ids == {i \in DOMAIN coll :
                                coll[i].timestamp < t - max_age_days * SecondsPerDay}
         IN [i \in DOMAIN coll \ expired_ids |-> coll[i]]

-----------------------------------------------------------------------------
(* CacheManager *)

\* (variant: every set is written to the persistent tier)
CacheManager_setAlwaysPersist(c, coll, avail, key, data, ttl, t, fails) ==
    [cache |-> [k \in DOMAIN c \cup {key} |->
                  IF k = key THEN [data |-> data, timestamp |-> t, ttl |-> ttl]
                  ELSE c[k]],
     collection |-> IF avail
                    THEN ChromaPersistentCache_set(coll, avail, key, make_serializable(data),
                                                   t, fails)
                    ELSE coll]

\* (variant: the value is converted for the store before the memory write)
CacheManager_setSerializedHot(c, coll, avail, key, data, ttl, t, fails) ==
    [cache |-> [k \in DOMAIN c \cup {key} |->
                  IF k = key
                  THEN [data |-> make_serializable(data), timestamp |-> t, ttl |-> ttl]
                  ELSE c[k]],
     collection |-> IF avail /\ ttl > PersistMinTTL
                    THEN ChromaPersistentCache_set(coll, avail, key, make_serializable(data),
                                                   t, fails)
                    ELSE coll]

CacheManager_set(c, coll, avail, key, data, ttl, t, fails) ==
    [cache |-> [k \in DOMAIN c \cup {key} |->
                  IF k = key THEN [data |-> data, timestamp |-> t, ttl |-> ttl]
                  ELSE c[k]],
     collection |-> IF avail /\ ttl > PersistMinTTL
                    THEN ChromaPersistentCache_set(coll, avail, key, make_serializable(data),
                                                   t, fails)
                    ELSE coll]

\* the memory entry of key is there and not expired (main.py lines 63-65)
HotFresh(c, key, t) == key \in DOMAIN c /\ t - c[key].timestamp < c[key].ttl

\* (variant: get removes the memory entry it finds expired)
CacheManager_getDropsExpired(c, coll, avail, key, t, get_fails, set_fails) ==
    IF HotFresh(c, key, t)
    THEN [cache |-> c, collection |-> coll, result |-> c[key].data]
    ELSE LET kept == [k \in DOMAIN c \ {key} |-> c[k]]
             chroma_data == ChromaPersistentCache_get(coll, avail, key, MaxAgeHours, t,
                                                      get_fails) IN
         IF chroma_data = Exc
         THEN [cache |-> kept, collection |-> coll, result |-> Exc]
         ELSE IF Truthy(chroma_data)
         THEN LET s == CacheManager_set(kept, coll, avail, key, chroma_data, RefreshTTL, t,
                                        set_fails) IN
              [cache |-> s.cache, collection |-> s.collection, result |-> chroma_data]
         ELSE [cache |-> kept, collection |-> coll, result |-> None]

\* get_fails, set_fails: the store raises in chroma_cache.get, in chroma_cache.set
CacheManager_get(c, coll, avail, key, t, get_fails, set_fails) ==
    IF HotFresh(c, key, t)
    THEN [cache |-> c, collection |-> coll, result |-> c[key].data]
    ELSE LET chroma_data == ChromaPersistentCache_get(coll, avail, key, MaxAgeHours, t,
                                                      get_fails) IN
         IF chroma_data = Exc
         THEN [cache |-> c, collection |-> coll, result |-> Exc]
         ELSE IF Truthy(chroma_data)
         THEN LET s == CacheManager_set(c, coll, avail, key, chroma_data, RefreshTTL, t,
                                        set_fails) IN
              [cache |-> s.cache, collection |-> s.collection, result |-> chroma_data]
         ELSE [cache |-> c, collection |-> coll, result |-> None]

CacheManager_get_stale(c, coll, avail, key, t, fails) ==
    IF key \in DOMAIN c
    THEN [cache |-> c, collection |-> coll, result |-> c[key].data,
          timestamp |-> c[key].timestamp]
    ELSE LET s == ChromaPersistentCache_get_stale(coll, avail, key, MaxStaleDays, t, fails) IN
         IF Truthy(s.result)
         THEN [cache |-> c, collection |-> s.collection, result |-> s.result,
               timestamp |-> s.timestamp]
         ELSE [cache |-> c, collection |-> s.collection, result |-> None,
               timestamp |-> 0]

CacheManager_clear(c, coll, avail, t, fails) ==
    [cache |-> << >>,
     collection |-> ChromaPersistentCache_clear_expired(coll, avail, MaxStaleDays, t, fails)]

-----------------------------------------------------------------------------
(* debounced_request (main.py).  The fetcher request_func is any coroutine:  *)
(* it starts, reaches the upstream, and returns one of the answers the       *)
(* upstream may give at that moment, or raises.                              *)

\* The process starts at some instant of the epoch clock, far from 0.
InitClock == now = StartTime /\ ticks = 0

Callers == 1..NumCallers

NoCaller == 0

UpstreamAnswers == {"a", "b"}

Raised == "exc"

NoTask == [state |-> "none", key |-> "", outcome |-> ""]

NewLock == [locked |-> FALSE, waiters |-> << >>]

InitDebounce ==
    /\ request_locks = << >>
    /\ active_requests = << >>
    /\ task = [c \in Callers |-> NoTask]
    /\ dpc = [c \in Callers |-> "idle"]
    /\ dkey = [c \in Callers |-> ""]
    /\ awaited = [c \in Callers |-> NoCaller]
    /\ dret = [c \in Callers |-> ""]
    /\ dcalls = 0
    /\ grp_pending = [k \in Keys |-> {}]
    /\ grp_size = [k \in Keys |-> 0]
    /\ grp_fetches = [k \in Keys |-> 0]
    /\ grp_results = [k \in Keys |-> {}]

\* callers that are inside debounced_request(key, ...)
InFlight(key) == {c \in Callers : dpc[c] # "idle" /\ dkey[c] = key}

\* (variant: the lock admits a caller while another one holds it)
LockNeverHeld(l) == TRUE

\* asyncio.Lock.acquire returns at once when the lock is free and nobody waits
LockFree(l) == ~l.locked /\ l.waiters = << >>

\* (variant: leaving `async with` does not release the lock)
ReleasedNever(l) == l

\* leaving `async with lock`: the lock is released, its waiters stay queued
Released(l) == [l EXCEPT !.locked = FALSE]

\* (variant: the finally clause leaves the registration in place)
CleanupSkipped(ar, key) == ar

\* the finally clause: if key in _active_requests: del _active_requests[key]
Cleanup(ar, key) == [k \in DOMAIN ar \ {key} |-> ar[k]]

\* The body under `async with _request_locks[key]`, up to its await:
\* await the registered task, or create and register a new one.
EnterCritical(c, key, locks) ==
    /\ request_locks' = [locks EXCEPT ![key].locked = TRUE]
    /\ IF key \in DOMAIN active_requests
       THEN /\ awaited' = [awaited EXCEPT ![c] = active_requests[key]]
            /\ dpc' = [dpc EXCEPT ![c] = "await_shared"]
            /\ UNCHANGED <<active_requests, task>>
       ELSE /\ task' = [task EXCEPT ![c] = [state |-> "scheduled", key |-> key, outcome |-> ""]]
            /\ active_requests' = [k \in DOMAIN active_requests \cup {key} |->
                                     IF k = key THEN c ELSE active_requests[k]]
            /\ awaited' = [awaited EXCEPT ![c] = c]
            /\ dpc' = [dpc EXCEPT ![c] = "await_task"]

\* debounced_request(key, request_func) from its first line to its first
\* suspension, with the history of the overlapping callers of the key
DebounceEnter(c, key) ==
    /\ dcalls' = dcalls + 1
    /\ dkey' = [dkey EXCEPT ![c] = key]
    /\ LET locks == IF key \in DOMAIN request_locks THEN request_locks
                    ELSE [k \in DOMAIN request_locks \cup {key} |->
                            IF k = key THEN NewLock ELSE request_locks[k]]
       IN IF LockFree(locks[key])
          THEN EnterCritical(c, key, locks)
          ELSE /\ request_locks' = [locks EXCEPT ![key].waiters = Append(@, c)]
               /\ dpc' = [dpc EXCEPT ![c] = "wait_lock"]
               /\ UNCHANGED <<active_requests, task, awaited>>
    /\ IF InFlight(key) = {}
       THEN /\ grp_pending' = [grp_pending EXCEPT ![key] = {c}]
            /\ grp_size' = [grp_size EXCEPT ![key] = 1]
            /\ grp_fetches' = [grp_fetches EXCEPT ![key] = 0]
            /\ grp_results' = [grp_results EXCEPT ![key] = {}]
       ELSE IF Cardinality(grp_pending[key]) = grp_size[key]
            THEN /\ grp_pending' = [grp_pending EXCEPT ![key] = @ \cup {c}]
                 /\ grp_size' = [grp_size EXCEPT ![key] = @ + 1]
                 /\ UNCHANGED <<grp_fetches, grp_results>>
            ELSE UNCHANGED <<grp_pending, grp_size, grp_fetches, grp_results>>

\* A caller invokes debounced_request(key, request_func).
DebounceCall(c, key) ==
    /\ dpc[c] = "idle"
    /\ \A d \in Callers : d < c => dpc[d] # "idle"   \* a new call takes the first free name
    /\ dcalls < MaxCalls
    /\ DebounceEnter(c, key)
    /\ UNCHANGED <<now, ticks, dret>>
    /\ UNCHANGED <<cacheVars, mcpVars, fetchVars>>

\* A caller that waited for the key's lock is woken by its release and enters.
DebounceAcquire(c) ==
    /\ dpc[c] = "wait_lock"
    /\ ~request_locks[dkey[c]].locked
    /\ Head(request_locks[dkey[c]].waiters) = c
    /\ EnterCritical(c, dkey[c],
                     [request_locks EXCEPT ![dkey[c]].waiters = Tail(@)])
    /\ UNCHANGED <<now, ticks, dkey, dret, dcalls,
                   grp_pending, grp_size, grp_fetches, grp_results>>
    /\ UNCHANGED <<cacheVars, mcpVars, fetchVars>>

\* The event loop starts a created task: request_func begins to execute.
TaskStart(c) ==
    /\ task[c].state = "scheduled"
    /\ task' = [task EXCEPT ![c].state = "running"]
    /\ grp_fetches' = [grp_fetches EXCEPT ![task[c].key] =
                          IF c \in grp_pending[task[c].key] THEN @ + 1 ELSE @]
    /\ UNCHANGED <<now, ticks, request_locks, active_requests, dpc, dkey, awaited, dret,
                   dcalls, grp_pending, grp_size, grp_results>>
    /\ UNCHANGED <<cacheVars, mcpVars, fetchVars>>

\* request_func completes with what the upstream answers now, or raises.
TaskFinish(c, outcome) ==
    /\ task[c].state = "running"
    /\ task' = [task EXCEPT ![c].state = "done", ![c].outcome = outcome]
    /\ UNCHANGED <<now, ticks, request_locks, active_requests, dpc, dkey, awaited, dret,
                   dcalls, grp_pending, grp_size, grp_fetches, grp_results>>
    /\ UNCHANGED <<cacheVars, mcpVars, fetchVars>>

\* debounced_request from the end of its await to its return
LeaveDebounce(c) ==
    /\ dret' = [dret EXCEPT ![c] = task[awaited[c]].outcome]
    /\ IF dpc[c] = "await_task"
       THEN /\ active_requests' = Cleanup(active_requests, dkey[c])
            /\ task' = [task EXCEPT ![c] = NoTask]
       ELSE UNCHANGED <<active_requests, task>>
    /\ request_locks' = [request_locks EXCEPT ![dkey[c]] = Released(@)]
    /\ dpc' = [dpc EXCEPT ![c] = "idle"]
    /\ awaited' = [awaited EXCEPT ![c] = NoCaller]
    /\ IF c \in grp_pending[dkey[c]]
       THEN /\ grp_pending' = [grp_pending EXCEPT ![dkey[c]] = @ \ {c}]
            /\ grp_results' = [grp_results EXCEPT ![dkey[c]] =
                                  @ \cup {task[awaited[c]].outcome}]
       ELSE UNCHANGED <<grp_pending, grp_results>>
    /\ UNCHANGED <<dkey, dcalls, grp_size, grp_fetches>>

\* The awaited task is done: the caller resumes, runs the finally clause if it
\* created the task, leaves the `async with` (releasing the lock) and returns
\* the task's result or re-raises its exception.
DebounceReturn(c) ==
    /\ dpc[c] \in {"await_task", "await_shared"}
    /\ task[awaited[c]].state = "done"
    /\ LeaveDebounce(c)
    /\ UNCHANGED <<now, ticks>>
    /\ UNCHANGED <<cacheVars, mcpVars, fetchVars>>

NextDebounce ==
    \/ \E c \in Callers, key \in Keys : DebounceCall(c, key)
    \/ \E c \in Callers : DebounceAcquire(c)
    \/ \E c \in Callers : TaskStart(c)
    \/ \E c \in Callers, outcome \in UpstreamAnswers \cup {Raised} : TaskFinish(c, outcome)
    \/ \E c \in Callers : DebounceReturn(c)

-----------------------------------------------------------------------------
(* The cache driven by its callers: any sequence of set, get, get_stale and *)
(* clear, with the clock advancing in between.                              *)

\* chromadb may or may not be importable when the process starts
ChromaInstalled == BOOLEAN

\* `failed`: the store raised during the operation
NoRet == [op |-> "none", key |-> "", value |-> None, timestamp |-> 0, failed |-> FALSE]

\* the store can raise only where there is a store, and when it is used
StoreFailures(used) == IF chroma_available /\ used THEN BOOLEAN ELSE {FALSE}

InitCache ==
    /\ cache = << >>
    /\ collection = << >>
    /\ chroma_available \in ChromaInstalled
    /\ stored = << >>
    /\ sets = 0
    /\ cache_ret = NoRet

\* cache_manager.set(key, data, ttl) made by an endpoint after a fetch
CacheSet(key, data, ttl, fails) ==
    /\ sets + ticks < MaxCacheEvents
    /\ LET s == CacheManager_set(cache, collection, chroma_available, key, data, ttl, now,
                                 fails) IN
         /\ cache' = s.cache
         /\ collection' = s.collection
    /\ stored' = [k \in DOMAIN stored \cup {key} |->
                    IF k = key THEN [data |-> data, storedAt |-> now, ttl |-> ttl]
                    ELSE stored[k]]
    /\ sets' = sets + 1
    /\ cache_ret' = [NoRet EXCEPT !.op = "set", !.key = key, !.value = data,
                                  !.failed = fails]
    /\ UNCHANGED <<now, ticks, chroma_available>>
    /\ UNCHANGED <<debounceVars, mcpVars, fetchVars>>

CacheGet(key, get_fails, set_fails) ==
    /\ LET g == CacheManager_get(cache, collection, chroma_available, key, now,
                                 get_fails, set_fails) IN
         /\ cache' = g.cache
         /\ collection' = g.collection
         /\ cache_ret' = [op |-> "get", key |-> key, value |-> g.result,
                          timestamp |-> 0,
                          failed |-> get_fails]
    /\ UNCHANGED <<now, ticks, chroma_available, stored, sets>>
    /\ UNCHANGED <<debounceVars, mcpVars, fetchVars>>

CacheGetStale(key, fails) ==
    /\ LET g == CacheManager_get_stale(cache, collection, chroma_available, key, now,
                                       fails) IN
         /\ cache' = g.cache
         /\ collection' = g.collection
         /\ cache_ret' = [op |-> "get_stale", key |-> key, value |-> g.result,
                          timestamp |-> g.timestamp,
                          failed |-> fails]
    /\ UNCHANGED <<now, ticks, chroma_available, stored, sets>>
    /\ UNCHANGED <<debounceVars, mcpVars, fetchVars>>

\* cache_manager.clear(); fails: the store raises during the sweep
CacheClearWith(fails) ==
    /\ LET s == CacheManager_clear(cache, collection, chroma_available, now, fails) IN
         /\ cache' = s.cache
         /\ collection' = s.collection
    /\ cache_ret' = [NoRet EXCEPT !.op = "clear"]
    /\ UNCHANGED <<now, ticks, chroma_available, stored, sets>>
    /\ UNCHANGED <<debounceVars, mcpVars, fetchVars>>

CacheClear == \E fails \in StoreFailures(collection # << >>) : CacheClearWith(fails)

CacheTick ==
    /\ sets + ticks < MaxCacheEvents
    /\ \E d \in CacheTickSteps : now' = now + d
    /\ ticks' = ticks + 1
    /\ cache_ret' = NoRet
    /\ UNCHANGED <<cache, collection, chroma_available, stored, sets>>
    /\ UNCHANGED <<debounceVars, mcpVars, fetchVars>>


NextCache ==
    \/ \E key \in Keys, data \in Payloads, ttl \in {CACHE_TTL, DefaultTTL} :
          \E fails \in StoreFailures(ttl > PersistMinTTL) : CacheSet(key, data, ttl, fails)
    \/ \E key \in Keys :
          \E get_fails \in StoreFailures(~HotFresh(cache, key, now)) :
          \E set_fails \in StoreFailures(~HotFresh(cache, key, now) /\ ~get_fails) :
             CacheGet(key, get_fails, set_fails)
    \/ \E key \in Keys :
          \E fails \in StoreFailures(key \notin DOMAIN cache) : CacheGetStale(key, fails)
    \/ CacheClear
    \/ CacheTick

\* set and get as an interface: any ttl a caller may pass, also none at all
TTLInputs == {0, DefaultTTL, CACHE_TTL}

NextRoundTrip ==
    \/ \E key \in Keys, data \in Payloads, ttl \in TTLInputs :
          \E fails \in StoreFailures(ttl > PersistMinTTL) : CacheSet(key, data, ttl, fails)
    \/ \E key \in Keys :
          \E get_fails \in StoreFailures(~HotFresh(cache, key, now)) :
          \E set_fails \in StoreFailures(~HotFresh(cache, key, now) /\ ~get_fails) :
             CacheGet(key, get_fails, set_fails)
    \/ CacheTick


-----------------------------------------------------------------------------
(* C4: CacheManager.get(key) never returns a value that is at least          *)
(* ttlSeconds old, counted from the set() that stored it after a fetch.      *)
C4_GetNeverReturnsExpired ==
    (cache_ret.op = "get" /\ cache_ret.value # None /\ cache_ret.key \in DOMAIN stored)
        => now - stored[cache_ret.key].storedAt < stored[cache_ret.key].ttl

(* C5: the stale lookup never returns an entry whose age is at least the     *)
(* maximum staleness D (MaxStaleDays), whichever tier holds the entry.       *)
C5_StaleNeverOlderThanMax ==
    (cache_ret.op = "get_stale" /\ cache_ret.value # None)
        => now - cache_ret.timestamp < MaxStaleDays * SecondsPerDay

-----------------------------------------------------------------------------
(* MCPManager (mcp_manager.py): call_tool_with_retry with its rate limiter   *)
(* and circuit breaker.  The tool call is an upstream invocation that ends   *)
(* with data, or raises an error naming 429, a timeout/connection error, or  *)
(* any other error.                                                          *)

UpstreamOutcomes == {"ok", "429", "timeout", "error"}

\* Steps by which the clock may advance on its own while calls are under way.
MCPTickSteps == {1, 300}

Sleeping == {"rl_window", "rl_delay", "backoff"}

InitMCP ==
    /\ request_queue = << >>
    /\ last_request_time = 0
    /\ global_request_lock = NewLock
    /\ circuit_breaker_open = FALSE
    /\ circuit_breaker_opened_at = 0
    /\ mpc = [c \in Callers |-> "idle"]
    /\ attempt = [c \in Callers |-> 0]
    /\ consecutive_429s = [c \in Callers |-> 0]
    /\ error_msg = [c \in Callers |-> ""]
    /\ rl_now = [c \in Callers |-> 0]
    /\ wake = [c \in Callers |-> 0]
    /\ mret = [caller |-> NoCaller, result |-> ""]
    /\ mcalls = 0
    /\ reg_log = << >>
    /\ rate_limited_run = 0

\* (variant: the factor grows by one with each attempt)
Pow2Linear(n) == n + 1

\* 2 ** n
Pow2(n) == IF n = 0 THEN 1 ELSE IF n = 1 THEN 2 ELSE IF n = 2 THEN 4 ELSE 8

\* _wait_for_rate_limit: self._request_queue = [t for t in ... if now - t < 60]
CleanOld(q, t) == SelectSeq(q, LAMBDA x : t - x < RateWindow)

\* (variant: the window admits one request more before it makes the caller wait)
WindowWaitOffByOne(q, t) ==
    IF Len(q) > MaxRequestsPerMinute
    THEN RateWindow - (t - q[1]) + RateWindowBuffer
    ELSE 0

\* _wait_for_rate_limit: the wait when the window already holds the maximum
WindowWait(q, t) ==
    IF Len(q) >= MaxRequestsPerMinute
    THEN RateWindow - (t - q[1]) + RateWindowBuffer
    ELSE 0

\* (variant: the minimum delay is not enforced)
DelayWaitNone(t, last) == 0

\* _wait_for_rate_limit: the wait that keeps two requests _request_delay apart
DelayWait(t, last) ==
    IF t - last < RequestDelay THEN RequestDelay - (t - last) ELSE 0

\* (variant: the check never reports the breaker open)
check_circuit_breakerNeverOpen(open, opened_at, t) ==
    IF open /\ t - opened_at > CircuitBreakerTimeout
    THEN [result |-> FALSE, open |-> FALSE]
    ELSE [result |-> FALSE, open |-> open]

\* _check_circuit_breaker at instant t: what it returns and the flag it leaves
check_circuit_breaker(open, opened_at, t) ==
    IF open
    THEN IF t - opened_at > CircuitBreakerTimeout
         THEN [result |-> FALSE, open |-> FALSE]
         ELSE [result |-> TRUE, open |-> TRUE]
    ELSE [result |-> FALSE, open |-> open]

\* the history keeps the last MaxRequestsPerMinute + 1 registrations
Logged(log, t) ==
    IF Len(log) > MaxRequestsPerMinute THEN Append(Tail(log), t) ELSE Append(log, t)

\* (variant: the time read before the wait is registered)
RegisterStaleAndCall(c, q) ==
    LET t == IF rl_now[c] > 0 THEN rl_now[c] ELSE now IN
    /\ request_queue' = Append(q, t)
    /\ last_request_time' = t
    /\ reg_log' = Logged(reg_log, t)
    /\ mpc' = [mpc EXCEPT ![c] = "calling"]
    /\ wake' = [wake EXCEPT ![c] = 0]
    /\ rl_now' = [rl_now EXCEPT ![c] = 0]

\* _wait_for_rate_limit, lines 69-71, then the session is opened and the tool
\* call is sent: the caller is suspended in the upstream invocation.
RegisterAndCall(c, q) ==
    /\ request_queue' = Append(q, now)
    /\ last_request_time' = now
    /\ reg_log' = Logged(reg_log, now)
    /\ mpc' = [mpc EXCEPT ![c] = "calling"]
    /\ wake' = [wake EXCEPT ![c] = 0]
    /\ rl_now' = [rl_now EXCEPT ![c] = 0]

\* _wait_for_rate_limit, lines 63-71; t0 is the local `now` read at line 51
DelayOrRegister(c, q, t0) ==
    LET wait_time == DelayWait(t0, last_request_time) IN
    IF wait_time > 0
    THEN /\ request_queue' = q
         /\ mpc' = [mpc EXCEPT ![c] = "rl_delay"]
         /\ wake' = [wake EXCEPT ![c] = now + wait_time]
         /\ rl_now' = [rl_now EXCEPT ![c] = t0]
         /\ UNCHANGED <<last_request_time, reg_log>>
    ELSE RegisterAndCall(c, q)

\* _wait_for_rate_limit from its first line to its first suspension
WaitForRateLimit(c) ==
    LET q == CleanOld(request_queue, now)
        wait_time == WindowWait(q, now)
    IN IF wait_time > 0
       THEN /\ request_queue' = q
            /\ mpc' = [mpc EXCEPT ![c] = "rl_window"]
            /\ wake' = [wake EXCEPT ![c] = now + wait_time]
            /\ rl_now' = [rl_now EXCEPT ![c] = now]
            /\ UNCHANGED <<last_request_time, reg_log>>
       ELSE DelayOrRegister(c, q, now)

\* (variant: the retry loop runs without taking the global lock)
EnterRetryLoopUnlocked(c, lock) ==
    /\ global_request_lock' = lock
    /\ consecutive_429s' = [consecutive_429s EXCEPT ![c] = 0]
    /\ attempt' = [attempt EXCEPT ![c] = 0]
    /\ UNCHANGED error_msg
    /\ WaitForRateLimit(c)

\* `async with self._global_request_lock` entered: the retry loop begins
EnterRetryLoop(c, lock) ==
    /\ global_request_lock' = [lock EXCEPT !.locked = TRUE]
    /\ consecutive_429s' = [consecutive_429s EXCEPT ![c] = 0]
    /\ attempt' = [attempt EXCEPT ![c] = 0]
    /\ UNCHANGED error_msg
    /\ WaitForRateLimit(c)

\* (variant: the last failure is raised to the caller)
AllAttemptsFailedRaises == "exc"

\* lines 162-163: every attempt failed, call_tool_with_retry returns None
AllAttemptsFailed == "None"

\* call_tool_with_retry returns: the lock is released
ReturnFromCall(c, result) ==
    /\ mret' = [caller |-> c, result |-> result]
    /\ mpc' = [mpc EXCEPT ![c] = "idle"]
    /\ wake' = [wake EXCEPT ![c] = 0]
    /\ attempt' = [attempt EXCEPT ![c] = 0]
    /\ consecutive_429s' = [consecutive_429s EXCEPT ![c] = 0]
    /\ error_msg' = [error_msg EXCEPT ![c] = ""]
    /\ global_request_lock' = Released(global_request_lock)

\* call_tool_with_retry from its first line to its first suspension, or to
\* its return when the breaker is open
CallToolEntry(c) ==
    /\ mcalls' = mcalls + 1
    /\ LET chk == check_circuit_breaker(circuit_breaker_open, circuit_breaker_opened_at, now) IN
         /\ circuit_breaker_open' = chk.open
         /\ rate_limited_run' = IF circuit_breaker_open /\ ~chk.open THEN 0 ELSE rate_limited_run
         /\ IF chk.result
            THEN /\ mret' = [caller |-> c, result |-> "None"]
                 /\ UNCHANGED <<request_queue, last_request_time, global_request_lock, mpc,
                                attempt, consecutive_429s, error_msg, rl_now, wake,
                                reg_log>>
            ELSE /\ IF LockFree(global_request_lock)
                    THEN EnterRetryLoop(c, global_request_lock)
                    ELSE /\ global_request_lock' =
                               [global_request_lock EXCEPT !.waiters = Append(@, c)]
                         /\ mpc' = [mpc EXCEPT ![c] = "wait_lock"]
                         /\ UNCHANGED <<request_queue, last_request_time, attempt,
                                        consecutive_429s, error_msg, rl_now, wake,
                                        reg_log>>
                 /\ UNCHANGED mret
    /\ UNCHANGED circuit_breaker_opened_at

\* A caller invokes call_tool_with_retry(tool_name, params).
MCPCall(c) ==
    /\ mpc[c] = "idle"
    /\ \A d \in Callers : d < c => mpc[d] # "idle"   \* a new call takes the first free name
    /\ mcalls + ticks < MaxMCPEvents
    /\ CallToolEntry(c)
    /\ UNCHANGED <<now, ticks>>
    /\ UNCHANGED <<cacheVars, debounceVars, fetchVars>>

\* A caller that waited for the global lock is woken by its release.
MCPAcquire(c) ==
    /\ mpc[c] = "wait_lock"
    /\ ~global_request_lock.locked
    /\ Head(global_request_lock.waiters) = c
    /\ EnterRetryLoop(c, [global_request_lock EXCEPT !.waiters = Tail(@)])
    /\ UNCHANGED <<now, ticks, circuit_breaker_open, circuit_breaker_opened_at, mret,
                   mcalls, rate_limited_run>>
    /\ UNCHANGED <<cacheVars, debounceVars, fetchVars>>

\* The sleep of line 61 (window full) is over.
RateLimitWindowWake(c) ==
    /\ mpc[c] = "rl_window"
    /\ now >= wake[c]
    /\ DelayOrRegister(c, request_queue, rl_now[c])
    /\ UNCHANGED <<now, ticks, global_request_lock, circuit_breaker_open,
                   circuit_breaker_opened_at, attempt, consecutive_429s, error_msg, mret,
                   mcalls,
                   rate_limited_run>>
    /\ UNCHANGED <<cacheVars, debounceVars, fetchVars>>

\* The sleep of line 67 (minimum delay) is over.
RateLimitDelayWake(c) ==
    /\ mpc[c] = "rl_delay"
    /\ now >= wake[c]
    /\ RegisterAndCall(c, request_queue)
    /\ UNCHANGED <<now, ticks, global_request_lock, circuit_breaker_open,
                   circuit_breaker_opened_at, attempt, consecutive_429s, error_msg, mret,
                   mcalls,
                   rate_limited_run>>
    /\ UNCHANGED <<cacheVars, debounceVars, fetchVars>>

\* the invocations that end without an error: the upstream answers data,
\* or a payload that is an empty object or list
Successes == {"ok", "empty"}

\* line 122: what json.loads makes of the answer, as call_tool_with_retry
\* returns it
Parsed(outcome) == IF outcome = "empty" THEN "empty" ELSE "data"

\* (variant: every failure counts towards the opening of the breaker)
CountEveryFailure(n, outcome) == n + 1

\* lines 135-136: only an error naming 429 adds to consecutive_429s
CountAfterFailure(n, outcome) == IF outcome = "429" THEN n + 1 ELSE n

\* (variant: a success leaves the breaker as it finds it)
BreakerKeptOnSuccess(open) == open

\* lines 126-128: an open breaker is reset by a successful call
BreakerAfterSuccess(open) == IF open THEN FALSE ELSE open

\* lines 122-160: what call_tool_with_retry does with the outcome of the
\* upstream invocation, up to its next suspension or its return
HandleOutcome(c, outcome) ==
    /\ rate_limited_run' = IF outcome = "429"
                           THEN (IF rate_limited_run < OpenAfter429s
                                 THEN rate_limited_run + 1 ELSE rate_limited_run)
                           ELSE 0
    /\ CASE outcome \in Successes ->
              /\ circuit_breaker_open' = BreakerAfterSuccess(circuit_breaker_open)
              /\ ReturnFromCall(c, Parsed(outcome))
              /\ UNCHANGED circuit_breaker_opened_at
         [] outcome = "429" ->
              IF CountAfterFailure(consecutive_429s[c], outcome) >= OpenAfter429s
              THEN /\ circuit_breaker_open' = TRUE
                   /\ circuit_breaker_opened_at' = now
                   /\ ReturnFromCall(c, "None")
              ELSE /\ consecutive_429s' =
                         [consecutive_429s EXCEPT ![c] = CountAfterFailure(@, outcome)]
                   /\ error_msg' = [error_msg EXCEPT ![c] = outcome]
                   /\ mpc' = [mpc EXCEPT ![c] = "backoff"]
                   /\ wake' = [wake EXCEPT ![c] = now + Pow2(attempt[c]) * RateLimitedBackoff]
                   /\ UNCHANGED <<circuit_breaker_open, circuit_breaker_opened_at,
                                  global_request_lock, mret, attempt>>
         [] outcome = "timeout" ->
              /\ error_msg' = [error_msg EXCEPT ![c] = outcome]
              /\ mpc' = [mpc EXCEPT ![c] = "backoff"]
              /\ wake' = [wake EXCEPT ![c] = now + (attempt[c] + 1) * ConnectionBackoff]
              /\ consecutive_429s' =
                    [consecutive_429s EXCEPT ![c] = CountAfterFailure(@, outcome)]
              /\ UNCHANGED <<circuit_breaker_open, circuit_breaker_opened_at,
                             global_request_lock, mret, attempt>>
         [] outcome = "error" ->
              /\ IF attempt[c] < MaxRetries - 1
                 THEN /\ error_msg' = [error_msg EXCEPT ![c] = outcome]
                      /\ mpc' = [mpc EXCEPT ![c] = "backoff"]
                      /\ wake' = [wake EXCEPT ![c] = now + OtherBackoff]
                      /\ consecutive_429s' =
                            [consecutive_429s EXCEPT ![c] = CountAfterFailure(@, outcome)]
                      /\ UNCHANGED <<global_request_lock, mret, attempt>>
                 ELSE ReturnFromCall(c, AllAttemptsFailed)
              /\ UNCHANGED <<circuit_breaker_open, circuit_breaker_opened_at>>
    /\ UNCHANGED <<request_queue, last_request_time, rl_now, mcalls, reg_log>>

\* The upstream invocation of line 121 ends: success, or one of the three
\* classes of failure of lines 132-160.
UpstreamReturn(c, outcome) ==
    /\ mpc[c] = "calling"
    /\ HandleOutcome(c, outcome)
    /\ UNCHANGED <<now, ticks>>
    /\ UNCHANGED <<cacheVars, debounceVars, fetchVars>>

\* (variant: the loop runs one attempt more than max_retries)
AfterBackoffOneMore(c) ==
    /\ IF attempt[c] + 1 <= MaxRetries
       THEN /\ attempt' = [attempt EXCEPT ![c] = @ + 1]
            /\ error_msg' = [error_msg EXCEPT ![c] = ""]
            /\ WaitForRateLimit(c)
            /\ UNCHANGED <<global_request_lock, mret, consecutive_429s>>
       ELSE /\ ReturnFromCall(c, AllAttemptsFailed)
            /\ UNCHANGED <<request_queue, last_request_time, rl_now, reg_log>>
    /\ UNCHANGED <<circuit_breaker_open, circuit_breaker_opened_at, mcalls, rate_limited_run>>

\* (variant: a backoff is never followed by another attempt)
AfterBackoffGivesUp(c) ==
    /\ ReturnFromCall(c, AllAttemptsFailed)
    /\ UNCHANGED <<request_queue, last_request_time, rl_now, reg_log>>
    /\ UNCHANGED <<circuit_breaker_open, circuit_breaker_opened_at, mcalls, rate_limited_run>>

\* `continue` after a backoff: the next attempt, or the end of the loop after
\* the last one
AfterBackoff(c) ==
    /\ IF attempt[c] + 1 < MaxRetries
       THEN /\ attempt' = [attempt EXCEPT ![c] = @ + 1]
            /\ error_msg' = [error_msg EXCEPT ![c] = ""]
            /\ WaitForRateLimit(c)
            /\ UNCHANGED <<global_request_lock, mret, consecutive_429s>>
       ELSE /\ ReturnFromCall(c, AllAttemptsFailed)
            /\ UNCHANGED <<request_queue, last_request_time, rl_now, reg_log>>
    /\ UNCHANGED <<circuit_breaker_open, circuit_breaker_opened_at, mcalls, rate_limited_run>>

\* The backoff sleep is over: `continue` with the next attempt, or leave the
\* loop after the last one and return None.
BackoffWake(c) ==
    /\ mpc[c] = "backoff"
    /\ now >= wake[c]
    /\ AfterBackoff(c)
    /\ UNCHANGED <<now, ticks>>
    /\ UNCHANGED <<cacheVars, debounceVars, fetchVars>>

\* The clock reaches the end of the next asyncio.sleep.
NextWake == {wake[c] : c \in {d \in Callers : mpc[d] \in Sleeping /\ wake[d] > now}}

MCPAdvance ==
    /\ NextWake # {}
    /\ now' = CHOOSE t \in NextWake : \A u \in NextWake : t <= u
    /\ UNCHANGED ticks
    /\ UNCHANGED <<cacheVars, debounceVars, mcpVars, fetchVars>>

\* Time passes on its own: during an upstream invocation, or between calls.
MCPTick ==
    /\ mcalls + ticks < MaxMCPEvents
    /\ \E d \in MCPTickSteps : now' = now + d
    /\ ticks' = ticks + 1
    /\ UNCHANGED <<cacheVars, debounceVars, mcpVars, fetchVars>>

NextMCP ==
    \/ \E c \in Callers : MCPCall(c)
    \/ \E c \in Callers : MCPAcquire(c)
    \/ \E c \in Callers : RateLimitWindowWake(c)
    \/ \E c \in Callers : RateLimitDelayWake(c)
    \/ \E c \in Callers, outcome \in UpstreamOutcomes : UpstreamReturn(c, outcome)
    \/ \E c \in Callers : BackoffWake(c)
    \/ MCPAdvance
    \/ MCPTick

-----------------------------------------------------------------------------
(* The fetching endpoints of main.py: get_top_gainers_losers and             *)
(* get_global_market_data look into the cache, then fetch through            *)
(* debounced_request; get_coins_markets looks into the cache, then calls the *)
(* manager itself.  The store is healthy here: its failures are the subject  *)
(* of the cache specification.                                               *)

MaxFetchEvents == 4

\* main.py CACHE_TTL["global"]
GlobalTTL == 900

\* get_coins_markets with its default parameters
DirectKeys == {"coins_markets_usd_market_cap_desc_100_1_1h,24h,7d"}

\* Steps by which the clock may advance between two calls.
FetchTickSteps == {60, 900, 172800}

\* the ttl under which each endpoint caches what it fetched
FreshTTL(key) == IF key = "global_market_data" THEN GlobalTTL ELSE CACHE_TTL

\* what an endpoint answers from upstream data: a response model, or for
\* get_coins_markets the upstream list itself
FreshResponse(key) ==
    IF key \in DirectKeys
    THEN [kind |-> "json", body |-> "a", empty |-> FALSE]
    ELSE [kind |-> "model", body |-> "a", empty |-> FALSE]

\* what an endpoint answers when it has nothing: a response model of empty
\* fields, or for get_coins_markets the empty list
DefaultResponse(key) ==
    IF key \in DirectKeys
    THEN [kind |-> "json", body |-> "[]", empty |-> TRUE]
    ELSE [kind |-> "model", body |-> "default", empty |-> FALSE]

NoFetchRet == [caller |-> NoCaller, op |-> "none", key |-> "", value |-> None]

\* the collection a previous run of the process left on disk
PersistedCollections ==
    { << >> } \cup
    { ChromaPersistentCache_set(<< >>, TRUE, key, FreshResponse(key), StartTime, FALSE) :
        key \in Keys }

InitFetch ==
    /\ fcalls = 0
    /\ fkey = [c \in Callers |-> ""]
    /\ fstart = [c \in Callers |-> 0]
    /\ tval = [c \in Callers |-> None]
    /\ fret = NoFetchRet

\* the returns of call_tool_with_retry that `if data:` takes for no data:
\* None, and the empty object or list
FalsyResults == {"None", "empty"}

\* fetch_data of get_top_gainers_losers and get_global_market_data after
\* call_tool_with_retry gave `result`; valid: the response model accepts the data
fetch_data(c, coll, avail, key, result, valid, t) ==
    IF result = "data" /\ valid
    THEN LET s == CacheManager_set(c, coll, avail, key, FreshResponse(key), FreshTTL(key), t,
                                   FALSE) IN
         [cache |-> s.cache, collection |-> s.collection,
          op |-> "fresh", value |-> FreshResponse(key)]
    ELSE LET g == CacheManager_get_stale(c, coll, avail, key, t, FALSE) IN
         IF Truthy(g.result)
         THEN [cache |-> g.cache, collection |-> g.collection,
               op |-> "stale", value |-> g.result]
         ELSE IF result \in FalsyResults
         THEN LET s == CacheManager_set(g.cache, g.collection, avail, key,
                                        DefaultResponse(key), DefaultTTL, t, FALSE) IN
              [cache |-> s.cache, collection |-> s.collection,
               op |-> "default", value |-> DefaultResponse(key)]
         ELSE [cache |-> g.cache, collection |-> g.collection,
               op |-> "default", value |-> DefaultResponse(key)]

\* get_coins_markets after call_tool_with_retry gave `result` (lines 573-588)
coins_markets_tail(c, coll, avail, key, result, t) ==
    IF result = "data"
    THEN LET s == CacheManager_set(c, coll, avail, key, FreshResponse(key), FreshTTL(key), t,
                                   FALSE) IN
         [cache |-> s.cache, collection |-> s.collection,
          op |-> "fresh", value |-> FreshResponse(key)]
    ELSE IF result \in FalsyResults
    THEN LET s == CacheManager_set(c, coll, avail, key, DefaultResponse(key), DefaultTTL, t,
                                   FALSE) IN
         [cache |-> s.cache, collection |-> s.collection,
          op |-> "default", value |-> DefaultResponse(key)]
    ELSE [cache |-> c, collection |-> coll,
          op |-> "default", value |-> DefaultResponse(key)]

\* what a run has used of MaxFetchEvents: a call weighs as two clock steps
FetchEvents == 2 * fcalls + ticks

\* a caller is inside a call of an endpoint
Busy(c) == dpc[c] # "idle" \/ mpc[c] # "idle"

\* _check_circuit_breaker answers True now: call_tool_with_retry returns at once
BreakerRejects ==
    check_circuit_breaker(circuit_breaker_open, circuit_breaker_opened_at, now).result

\* the task of caller c ends: fetch_data runs from the return of
\* call_tool_with_retry to its own return, from the cache (c0, coll)
FetchDataEnds(c, c0, coll, result, valid) ==
    LET r == fetch_data(c0, coll, chroma_available, task[c].key, result, valid, now) IN
      /\ cache' = r.cache
      /\ collection' = r.collection
      /\ task' = [task EXCEPT ![c].state = "done", ![c].outcome = r.op]
      /\ tval' = [tval EXCEPT ![c] = r.value]

\* get_coins_markets of caller c runs from the return of call_tool_with_retry
\* to its own return
CoinsMarketsEnds(c, c0, coll, key, result) ==
    LET r == coins_markets_tail(c0, coll, chroma_available, key, result, now) IN
      /\ cache' = r.cache
      /\ collection' = r.collection
      /\ fret' = [caller |-> c, op |-> r.op, key |-> key, value |-> r.value]
      /\ fkey' = [fkey EXCEPT ![c] = ""]
      /\ fstart' = [fstart EXCEPT ![c] = 0]

\* call_tool_with_retry has returned to caller c in this step: the coroutine
\* that awaited it goes on to its end
AfterCallTool(c, valid) ==
    IF mpc'[c] = "idle"
    THEN IF fkey[c] # ""
         THEN /\ CoinsMarketsEnds(c, cache, collection, fkey[c], mret'.result)
              /\ UNCHANGED <<task, fcalls, tval>>
         ELSE /\ FetchDataEnds(c, cache, collection, mret'.result, valid)
              /\ UNCHANGED <<fcalls, fkey, fstart, fret>>
    ELSE UNCHANGED <<cache, collection, task, fetchVars>>

\* A caller requests get_top_gainers_losers or get_global_market_data: the
\* answer of the cache when it has one, debounced_request(key, fetch_data)
\* otherwise.
FetchCall(c, key) ==
    /\ ~Busy(c)
    /\ \A d \in Callers : d < c => Busy(d)   \* a new call takes the first free name
    /\ FetchEvents + 2 <= MaxFetchEvents
    /\ fcalls' = fcalls + 1
    /\ LET g == CacheManager_get(cache, collection, chroma_available, key, now, FALSE, FALSE) IN
         /\ cache' = g.cache
         /\ collection' = g.collection
         /\ IF Truthy(g.result)
            THEN /\ fret' = [caller |-> c, op |-> "hit", key |-> key, value |-> g.result]
                 /\ UNCHANGED <<debounceVars, fstart>>
            ELSE /\ DebounceEnter(c, key)
                 /\ fstart' = [fstart EXCEPT ![c] = now]
                 /\ UNCHANGED <<fret, dret>>
    /\ UNCHANGED <<now, ticks, chroma_available, stored, sets, cache_ret, fkey, tval>>
    /\ UNCHANGED mcpVars

\* A caller requests get_coins_markets: the answer of the cache when it has
\* one, call_tool_with_retry otherwise.
CoinsMarketsCall(c, key) ==
    /\ ~Busy(c)
    /\ \A d \in Callers : d < c => Busy(d)
    /\ FetchEvents + 2 <= MaxFetchEvents
    /\ fcalls' = fcalls + 1
    /\ LET g == CacheManager_get(cache, collection, chroma_available, key, now, FALSE, FALSE) IN
         IF Truthy(g.result)
         THEN /\ cache' = g.cache
              /\ collection' = g.collection
              /\ fret' = [caller |-> c, op |-> "hit", key |-> key, value |-> g.result]
              /\ UNCHANGED <<mcpVars, fkey, fstart>>
         ELSE /\ CallToolEntry(c)
              /\ IF BreakerRejects
                 THEN CoinsMarketsEnds(c, g.cache, g.collection, key, "None")
                 ELSE /\ cache' = g.cache
                      /\ collection' = g.collection
                      /\ fkey' = [fkey EXCEPT ![c] = key]
                      /\ fstart' = [fstart EXCEPT ![c] = now]
                      /\ UNCHANGED fret
    /\ UNCHANGED <<now, ticks, chroma_available, stored, sets, cache_ret, tval>>
    /\ UNCHANGED debounceVars

\* The event loop starts a created task: fetch_data runs to its first
\* suspension inside call_tool_with_retry, or to its end when the breaker is open.
FetchTaskStart(c) ==
    /\ task[c].state = "scheduled"
    /\ grp_fetches' = [grp_fetches EXCEPT ![task[c].key] =
                          IF c \in grp_pending[task[c].key] THEN @ + 1 ELSE @]
    /\ CallToolEntry(c)
    /\ IF BreakerRejects
       THEN FetchDataEnds(c, cache, collection, "None", TRUE)
       ELSE /\ task' = [task EXCEPT ![c].state = "running"]
            /\ UNCHANGED <<cache, collection, tval>>
    /\ UNCHANGED <<now, ticks, chroma_available, stored, sets, cache_ret>>
    /\ UNCHANGED <<request_locks, active_requests, dpc, dkey, awaited, dret, dcalls,
                   grp_pending, grp_size, grp_results>>
    /\ UNCHANGED <<fcalls, fkey, fstart, fret>>

\* The upstream invocation ends; when that ends call_tool_with_retry, its
\* caller goes on to its end in the same step.
FetchUpstreamReturn(c, outcome, valid) ==
    /\ mpc[c] = "calling"
    /\ HandleOutcome(c, outcome)
    /\ AfterCallTool(c, valid)
    /\ UNCHANGED <<now, ticks, chroma_available, stored, sets, cache_ret>>
    /\ UNCHANGED <<request_locks, active_requests, dpc, dkey, awaited, dret, dcalls,
                   grp_pending, grp_size, grp_fetches, grp_results>>

\* The backoff sleep is over; when that ends call_tool_with_retry, its caller
\* goes on to its end in the same step.
FetchBackoffWake(c) ==
    /\ mpc[c] = "backoff"
    /\ now >= wake[c]
    /\ AfterBackoff(c)
    /\ AfterCallTool(c, TRUE)
    /\ UNCHANGED <<now, ticks, chroma_available, stored, sets, cache_ret>>
    /\ UNCHANGED <<request_locks, active_requests, dpc, dkey, awaited, dret, dcalls,
                   grp_pending, grp_size, grp_fetches, grp_results>>

\* debounced_request returns, and with it the endpoint that awaited it.
FetchReturn(c) ==
    /\ dpc[c] \in {"await_task", "await_shared"}
    /\ task[awaited[c]].state = "done"
    /\ LeaveDebounce(c)
    /\ fret' = [caller |-> c, op |-> task[awaited[c]].outcome, key |-> dkey[c],
                value |-> tval[awaited[c]]]
    /\ fstart' = [fstart EXCEPT ![c] = 0]
    /\ tval' = IF dpc[c] = "await_task" THEN [tval EXCEPT ![c] = None] ELSE tval
    /\ UNCHANGED <<now, ticks, fcalls, fkey>>
    /\ UNCHANGED <<cacheVars, mcpVars>>

\* Time passes between two calls; during a call it passes in the sleeps.
FetchTick ==
    /\ FetchEvents + 1 <= MaxFetchEvents
    /\ \A c \in Callers : ~Busy(c)
    /\ \E d \in FetchTickSteps : now' = now + d
    /\ ticks' = ticks + 1
    /\ UNCHANGED <<cacheVars, debounceVars, mcpVars, fetchVars>>

\* the steps owed to the callers: the event loop runs every coroutine that is
\* ready, every sleep ends and every upstream invocation ends
FetchProgress ==
    \/ \E c \in Callers : DebounceAcquire(c)
    \/ \E c \in Callers : FetchTaskStart(c)
    \/ \E c \in Callers : MCPAcquire(c)
    \/ \E c \in Callers : RateLimitWindowWake(c)
    \/ \E c \in Callers : RateLimitDelayWake(c)
    \/ \E c \in Callers, outcome \in UpstreamOutcomes :
          \E valid \in IF outcome = "ok" THEN BOOLEAN ELSE {TRUE} :
             FetchUpstreamReturn(c, outcome, valid)
    \/ \E c \in Callers : FetchBackoffWake(c)
    \/ \E c \in Callers : FetchReturn(c)
    \/ MCPAdvance

\* the calls of the endpoints and what follows from them
NextFetchCalls ==
    \/ \E c \in Callers, key \in Keys : FetchCall(c, key)
    \/ \E c \in Callers, key \in DirectKeys : CoinsMarketsCall(c, key)
    \/ FetchProgress

NextFetch ==
    \/ NextFetchCalls
    \/ FetchTick

-----------------------------------------------------------------------------

(* Specifications *)

Init == InitClock /\ InitCache /\ InitDebounce /\ InitMCP /\ InitFetch

SpecCache == Init /\ [][NextCache]_vars

SpecRoundTrip == Init /\ [][NextRoundTrip]_vars

\* debounced_request and MCPManager never touch the cache: one start suffices
InitWithChroma == Init /\ chroma_available = TRUE

SpecDebounce == InitWithChroma /\ [][NextDebounce]_vars

SpecMCP == InitWithChroma /\ [][NextMCP]_vars

\* the process starts with the store installed and what a previous run left in it
InitWithStore ==
    /\ InitClock /\ InitDebounce /\ InitMCP /\ InitFetch
    /\ cache = << >>
    /\ collection \in PersistedCollections
    /\ chroma_available = TRUE
    /\ stored = << >>
    /\ sets = 0
    /\ cache_ret = NoRet

SpecFetch == InitWithStore /\ [][NextFetch]_vars

-----------------------------------------------------------------------------
\* An overlapping group of a key: callers of debounced_request(key, ...) that
\* each started before any of the others had returned, starting from a moment
\* when no call for the key was in progress.
GroupDone(key) == grp_size[key] >= 2 /\ grp_pending[key] = {}

(* C1: N >= 2 concurrent callers of debounced_request(key, fetcher) cause    *)
(* exactly one execution of the fetcher in total.                            *)
C1_OneFetchPerGroup ==
    \A key \in Keys : GroupDone(key) => grp_fetches[key] = 1

(* C2: per key at most one fetcher task is running and at most one entry is  *)
(* registered; the entry is that of the running fetch, it is removed when    *)
(* the fetch completes (returned or raised) and before another fetch for     *)
(* the key starts.                                                           *)
LiveTasks(key) == {c \in Callers : task[c].state \in {"scheduled", "running"}
                                    /\ task[c].key = key}

C2_AtMostOneInFlight ==
    \A key \in Keys :
        /\ Cardinality(LiveTasks(key)) <= 1
        /\ \A c \in LiveTasks(key) :
              key \in DOMAIN active_requests /\ active_requests[key] = c
        /\ key \in DOMAIN active_requests =>
              /\ dpc[active_requests[key]] = "await_task"
              /\ dkey[active_requests[key]] = key
              /\ task[active_requests[key]].key = key
              /\ request_locks[key].locked

\* a second fetch for a key runs, after the first one completed and was removed
C2_Witness ==
    \E key \in Keys, c \in Callers :
        /\ grp_fetches[key] = 2
        /\ grp_results[key] = {Raised}
        /\ task[c].state = "running" /\ task[c].key = key
        /\ active_requests[key] = c

(* C3: all callers whose debounced_request(key, ...) calls overlap receive   *)
(* the same result, the outcome of one shared fetch.                         *)
C3_SameResultForGroup ==
    \A key \in Keys : grp_size[key] >= 2 => Cardinality(grp_results[key]) <= 1

-----------------------------------------------------------------------------
\* the breaker is open at this instant: opened, and the cooldown not yet over
BreakerOpen ==
    circuit_breaker_open /\ now - circuit_breaker_opened_at <= CircuitBreakerTimeout

(* C6: while the circuit breaker is open no fetch has an upstream invocation *)
(* under way, also not a fetch that was waiting for admission when the       *)
(* breaker opened.                                                           *)
C6_NoInvocationWhileOpen ==
    \A c \in Callers : mpc[c] = "calling" => ~BreakerOpen

(* C7: counted over all attempts of all calls since the last success, the    *)
(* second RateLimited failure in a row opens the breaker.                    *)
C7_SecondRateLimitedOpens ==
    rate_limited_run >= OpenAfter429s => circuit_breaker_open

(* C8: once open, the breaker stays open until CircuitBreakerTimeout seconds *)
(* have passed since it was opened: no step closes it before.                *)
C8_OpenUntilCooldown ==
    [][(circuit_breaker_open /\ now' - circuit_breaker_opened_at < CircuitBreakerTimeout)
          => circuit_breaker_open']_vars

(* C9: no more than MaxRequestsPerMinute timestamps are registered within    *)
(* any rolling window of RateWindow seconds.                                 *)
C9_AtMostMaxPerWindow ==
    \A i, j \in DOMAIN reg_log :
        j - i >= MaxRequestsPerMinute => reg_log[j] - reg_log[i] >= RateWindow

\* five registrations within one window, and a sixth made after the wait
C9_Witness ==
    /\ Len(reg_log) = MaxRequestsPerMinute + 1
    /\ reg_log[MaxRequestsPerMinute] - reg_log[1] < RateWindow
    /\ reg_log[MaxRequestsPerMinute + 1] - reg_log[1] = RateWindow + RateWindowBuffer

(* C10: two consecutively registered timestamps are at least RequestDelay    *)
(* seconds apart, whether or not the window is full.                         *)
C10_MinDelayBetweenRegistrations ==
    \A i \in DOMAIN reg_log :
        i + 1 \in DOMAIN reg_log => reg_log[i + 1] - reg_log[i] >= RequestDelay

\* a registration that was delayed to exactly RequestDelay after the previous one
C10_Witness ==
    \E i \in DOMAIN reg_log :
        /\ i + 1 \in DOMAIN reg_log
        /\ reg_log[i + 1] - reg_log[i] = RequestDelay

-----------------------------------------------------------------------------
(* C11: at every instant at most one upstream invocation made through        *)
(* call_tool_with_retry is in progress, over all callers, keys and tools.    *)
C11_OneInvocationAtATime ==
    Cardinality({c \in Callers : mpc[c] = "calling"}) <= 1

\* one caller is in its upstream invocation while another waits for the lock
C11_Witness ==
    \E c, d \in Callers : mpc[c] = "calling" /\ mpc[d] = "wait_lock"

-----------------------------------------------------------------------------
\* the id under which the persistent tier keeps the entry of a cache key
StoreId(key) == generate_cache_key(key, NoParams)

(* C15: set(k, v, ttl) immediately followed by get(k), with no time elapsing *)
(* and nothing in between, returns v unchanged, for every ttl >= 0 and       *)
(* whatever the two tiers held before.                                       *)
C15_RoundTrip ==
    [][(cache_ret.op = "set" /\ cache_ret'.op = "get" /\ cache_ret'.key = cache_ret.key)
          => cache_ret'.value = cache_ret.value]_vars

(* C15, amended: set(k, v, ttl) immediately followed by get(k) returns v     *)
(* unchanged for every ttl > 0.                                              *)
C15_RoundTripPositiveTTL ==
    [][(/\ cache_ret.op = "set"
        /\ cache_ret'.op = "get"
        /\ cache_ret'.key = cache_ret.key
        /\ stored[cache_ret.key].ttl > 0)
          => cache_ret'.value = cache_ret.value]_vars

\* get answers the value set at this instant although the persistent tier
\* still holds another one for the key
C15_Witness ==
    /\ cache_ret.op = "get"
    /\ cache_ret.key \in DOMAIN stored
    /\ stored[cache_ret.key].storedAt = now
    /\ stored[cache_ret.key].ttl > 0
    /\ cache_ret.value = stored[cache_ret.key].data
    /\ StoreId(cache_ret.key) \in DOMAIN collection
    /\ collection[StoreId(cache_ret.key)].document # make_serializable(cache_ret.value)

(* C16: set(key, value, ttl) replaces the hot-tier entry of key by           *)
(* (value, now, ttl) and leaves the other entries alone; it writes the       *)
(* persistent tier when ttl > 60 and leaves it unchanged when ttl <= 60.     *)
C16_SetWritesTiers ==
    [][cache_ret'.op = "set" =>
         LET k == cache_ret'.key
             v == cache_ret'.value
             ttl == stored'[k].ttl
         IN /\ k \in DOMAIN cache'
            /\ cache'[k] = [data |-> v, timestamp |-> now', ttl |-> ttl]
            /\ \A o \in DOMAIN cache \ {k} : o \in DOMAIN cache' /\ cache'[o] = cache[o]
            /\ ttl <= 60 => collection' = collection
            /\ (ttl > 60 /\ chroma_available /\ ~cache_ret'.failed) =>
                  /\ StoreId(k) \in DOMAIN collection'
                  /\ collection'[StoreId(k)] =
                        [document |-> make_serializable(v), timestamp |-> now']]_vars

\* a set with ttl 60 was made while the persistent tier holds another value
C16_Witness ==
    /\ cache_ret.op = "set"
    /\ stored[cache_ret.key].ttl = DefaultTTL
    /\ StoreId(cache_ret.key) \in DOMAIN collection
    /\ collection[StoreId(cache_ret.key)].document # make_serializable(cache_ret.value)

(* C17: when the persistent store is unavailable or its operation fails, the *)
(* cache behaves as a hot-tier-only cache: set stores the value in the hot   *)
(* tier, get and get_stale answer from the hot tier alone, nothing raises.   *)
C17_DegradesToHotTier ==
    (~chroma_available \/ cache_ret.failed) =>
        /\ cache_ret.value # Exc
        /\ cache_ret.op = "get" =>
              cache_ret.value = IF HotFresh(cache, cache_ret.key, now)
                                THEN cache[cache_ret.key].data ELSE None
        /\ cache_ret.op = "get_stale" =>
              cache_ret.value = IF cache_ret.key \in DOMAIN cache
                                THEN cache[cache_ret.key].data ELSE None
        /\ cache_ret.op = "set" =>
              /\ cache_ret.key \in DOMAIN cache
              /\ cache[cache_ret.key].data = cache_ret.value
              /\ cache[cache_ret.key].timestamp = now

\* the store failed in a get for which it holds an entry less than an hour old
C17_Witness ==
    /\ cache_ret.op = "get"
    /\ cache_ret.failed
    /\ cache_ret.value = None
    /\ StoreId(cache_ret.key) \in DOMAIN collection
    /\ now - collection[StoreId(cache_ret.key)].timestamp < MaxAgeHours * SecondsPerHour

-----------------------------------------------------------------------------
\* a request of the endpoint of key made by caller c
EndpointCall(c, key) ==
    \/ key \in Keys /\ FetchCall(c, key)
    \/ key \in DirectKeys /\ CoinsMarketsCall(c, key)

\* C12: when the hot tier holds an unexpired entry for a key, a request of the
\* key's endpoint returns the value of that entry and makes no call of the
\* manager: no registration with the rate limiter, no acquisition of the
\* admission lock, no upstream invocation.
C12_HotHitBypassesUpstream ==
    [][\A c \in Callers, key \in Keys \cup DirectKeys :
          ( /\ EndpointCall(c, key)
            /\ key \in DOMAIN cache
            /\ now - cache[key].timestamp < cache[key].ttl )
          => /\ fret'.caller = c
             /\ fret'.key = key
             /\ fret'.value = cache[key].data
             /\ UNCHANGED <<request_queue, reg_log, global_request_lock, mpc>>]_vars

-----------------------------------------------------------------------------
\* chroma_cache.py get_stale: the default of max_stale_days
DefaultMaxStaleDays == 7

\* the values of the entries of key, in either tier, that are younger than days
HeldYounger(key, days) ==
    {cache[k].data : k \in {k \in DOMAIN cache \cap {key} :
                              now - cache[k].timestamp < days * SecondsPerDay}}
    \cup
    {collection[i].document : i \in {i \in DOMAIN collection \cap {StoreId(key)} :
                                       now - collection[i].timestamp < days * SecondsPerDay}}

\* the task of caller c ends in this step, call_tool_with_retry having given
\* up after its last attempt
FetchExhausted(c) ==
    /\ task[c].state = "running"
    /\ task'[c].state = "done"
    /\ attempt[c] = MaxRetries - 1
    /\ mret'.caller = c
    /\ mret'.result = "None"

\* C13: when a fetch fails after its last attempt and an entry of the key
\* younger than 7 days is held, in the hot tier or in the persistent tier only,
\* the fetch answers the value of that entry as stale data, not the default.
C13_StaleWithinSevenDays ==
    [][\A c \in Callers :
          (FetchExhausted(c) /\ HeldYounger(task[c].key, DefaultMaxStaleDays) # {})
          => /\ task'[c].outcome = "stale"
             /\ tval'[c] \in HeldYounger(task[c].key, DefaultMaxStaleDays)]_vars

-----------------------------------------------------------------------------
\* the kinds of answer of a fetching endpoint
FetchAnswers == {"hit", "fresh", "stale", "default"}

\* C14: no upstream failure reaches the caller as an exception: whatever the
\* upstream outcomes, call_tool_with_retry returns the data or None and never
\* raises, no task of fetch_data ends with an exception, and an endpoint
\* answers fresh data, stale data or the default, with a value.
C14_NoExceptionReachesCaller ==
    /\ mret.result \in {"", "data", "None"}
    /\ \A c \in Callers :
          task[c].state = "done" =>
             /\ task[c].outcome \in FetchAnswers
             /\ tval[c] \notin {None, Exc}
    /\ fret.op # "none" => fret.op \in FetchAnswers /\ fret.value \notin {None, Exc}

\* call_tool_with_retry gave None to a caller whose endpoint answered the default
C14_Witness ==
    /\ mret.result = "None"
    /\ mret.caller = fret.caller
    /\ fret.op = "default"
    /\ rate_limited_run > 0

-----------------------------------------------------------------------------
\* C18: a failed fetch leaves the cache unchanged: when the task of fetch_data
\* ends with the default (the upstream gave no data and there was no stale
\* entry), neither tier holds an entry for the key afterwards.
C18_FailedFetchLeavesNoEntry ==
    [][\A c \in Callers :
          ( /\ task[c].state \in {"scheduled", "running"}
            /\ task'[c].state = "done"
            /\ task'[c].outcome = "default" )
          => /\ task[c].key \notin DOMAIN cache'
             /\ StoreId(task[c].key) \notin DOMAIN collection']_vars

-----------------------------------------------------------------------------
\* the calls run to their end under a fair event loop; the clock moves in
\* the sleeps
SpecFetchFair == InitWithStore /\ [][NextFetchCalls]_vars /\ WF_vars(FetchProgress)

\* C19: every call of a fetching endpoint eventually returns to its caller,
\* whatever the keys of the concurrent calls and whatever the upstream answers.
C19_EveryFetchReturns ==
    \A c \in Callers : Busy(c) ~> ~Busy(c)

\* two fetches of different keys under way: one sleeps in a backoff holding the
\* global lock and the lock of its key, the other holds the lock of its key
\* and waits for the global lock
C19_Witness ==
    \E c, d \in Callers :
       /\ dpc[c] = "await_task" /\ mpc[c] = "backoff"
       /\ dpc[d] = "await_task" /\ mpc[d] = "wait_lock"
       /\ dkey[c] # dkey[d]

-----------------------------------------------------------------------------
\* the timeout of a caller, in seconds (the one wait_for of the repository)
CallerTimeout == 30

\* C20: a caller whose timeout has expired while its fetch was running has
\* been given the fallback: no caller is still waiting for an endpoint more
\* than the timeout after it called it.
C20_TimedOutCallerGetsFallback ==
    \A c \in Callers : Busy(c) => now - fstart[c] <= CallerTimeout

-----------------------------------------------------------------------------
(* C21: after CacheManager.clear() a get(k) returns nothing for every key k  *)
(* until the next set(k, ...): no value stored before the clear is served    *)
(* as a cache hit by the get that follows the clear.                         *)
C21_ClearedCacheMisses ==
    [][(cache_ret.op = "clear" /\ cache_ret'.op = "get") => cache_ret'.value = None]_vars

-----------------------------------------------------------------------------
\* the call of caller c ends in this step
CallEnds(c) == mpc[c] # "idle" /\ mpc'[c] = "idle"

(* C22: one call of call_tool_with_retry makes at most MaxRetries upstream   *)
(* invocations (attempt[c] is the 0-based index of the one it makes), and a  *)
(* call that ends otherwise than by a successful invocation returns None.    *)
C22_AtMostMaxRetriesThenNone ==
    [][\A c \in Callers :
          /\ mpc'[c] = "calling" => attempt'[c] + 1 <= MaxRetries
          /\ (CallEnds(c) /\ ~(mpc[c] = "calling" /\ mret'.result = "data"))
                => mret' = [caller |-> c, result |-> "None"]]_vars

\* the third invocation of a call has failed and the call has returned None
C22_Witness ==
    /\ mcalls = 1
    /\ Len(reg_log) = MaxRetries
    /\ mret.result = "None"
    /\ ~circuit_breaker_open
    /\ \A c \in Callers : mpc[c] = "idle"

-----------------------------------------------------------------------------
\* the breaker goes from closed to open in this step
BreakerOpens == ~circuit_breaker_open /\ circuit_breaker_open'

\* the positions of a caller inside an attempt: waiting for a slot, or invoking
InAttempt == {"rl_window", "rl_delay", "calling"}

\* the fetch whose RateLimited failure opens the breaker returns None in the
\* same step: no sleep, no registration, the lock released
AbortsOnOpen(c) ==
    (mpc[c] = "calling" /\ mpc'[c] # "calling" /\ BreakerOpens)
        => /\ mret' = [caller |-> c, result |-> "None"]
           /\ mpc'[c] = "idle"
           /\ wake'[c] = 0
           /\ reg_log' = reg_log
           /\ ~global_request_lock'.locked

\* a RateLimited failure that leaves the call running puts it into a backoff
BacksOffWhenNotOpening(c) ==
    (mpc[c] = "calling" /\ error_msg'[c] = "429")
        => /\ mpc'[c] = "backoff"
           /\ wake'[c] > now
           /\ circuit_breaker_open' = circuit_breaker_open

(* C23, as stated: the RateLimited failure that opens the breaker aborts the *)
(* fetch at once; every RateLimited failure that does not open it is         *)
(* followed by a backoff and then by the next attempt.                       *)
C23_AbortOnOpenElseRetry ==
    [][\A c \in Callers :
          /\ AbortsOnOpen(c)
          /\ BacksOffWhenNotOpening(c)
          /\ (mpc[c] = "backoff" /\ error_msg[c] = "429" /\ mpc'[c] # "backoff")
                => (mpc'[c] \in InAttempt /\ attempt'[c] = attempt[c] + 1)]_vars

(* C23, amended: the backoff after a RateLimited failure that does not open  *)
(* the breaker is followed by the next attempt when the failed attempt was   *)
(* not the last permitted one; after the last one the backoff is slept all   *)
(* the same and the fetch then returns None without a retry.                 *)
C23_AbortOnOpenElseRetryInBudget ==
    [][\A c \in Callers :
          /\ AbortsOnOpen(c)
          /\ BacksOffWhenNotOpening(c)
          /\ (mpc[c] = "backoff" /\ error_msg[c] = "429" /\ mpc'[c] # "backoff")
                => IF attempt[c] + 1 < MaxRetries
                   THEN mpc'[c] \in InAttempt /\ attempt'[c] = attempt[c] + 1
                   ELSE CallEnds(c) /\ mret' = [caller |-> c, result |-> "None"]]_vars

\* a call was rate limited on its first attempt, backed off, retried, and its
\* second RateLimited failure opened the breaker: it returned with one
\* attempt of its budget unused
C23_Witness ==
    /\ mcalls = 1
    /\ Len(reg_log) = OpenAfter429s
    /\ reg_log[2] - reg_log[1] >= RateLimitedBackoff
    /\ circuit_breaker_open
    /\ circuit_breaker_opened_at = now
    /\ mret.result = "None"
    /\ \A c \in Callers : mpc[c] = "idle"

-----------------------------------------------------------------------------
\* a call of call_tool_with_retry begins in this step: the breaker is checked
BreakerChecked == mcalls' = mcalls + 1

\* the check reported open: the call returned None and its caller never left
CheckReportsOpen == mpc' = mpc /\ mret'.result = "None"

(* C24: a check of the breaker at time now reports open exactly when the     *)
(* breaker was opened and now - openedAt < CircuitBreakerTimeout; a check at *)
(* now - openedAt >= CircuitBreakerTimeout closes the breaker and reports    *)
(* closed.                                                                   *)
C24_OpenExactlyWithinCooldown ==
    [][BreakerChecked =>
         /\ CheckReportsOpen <=>
               ( /\ circuit_breaker_open
                 /\ now - circuit_breaker_opened_at < CircuitBreakerTimeout )
         /\ ( /\ circuit_breaker_open
              /\ now - circuit_breaker_opened_at >= CircuitBreakerTimeout )
               => ~circuit_breaker_open']_vars

-----------------------------------------------------------------------------
\* the invocation caller c has under way is the first one made since a
\* success: it is the first of its call, made under the global lock, and the
\* latest call to return had returned data
FollowsSuccess(c) == mpc[c] = "calling" /\ attempt[c] = 0 /\ mret.result = "data"

(* C25: every successful upstream invocation leaves the breaker closed and   *)
(* the count of RateLimited failures at 0, so that a RateLimited failure     *)
(* that follows a success is the first of a new run and does not open the    *)
(* breaker.                                                                  *)
C25_SuccessResetsBreaker ==
    [][\A c \in Callers :
          /\ UpstreamReturn(c, "ok")
                => /\ ~circuit_breaker_open'
                   /\ consecutive_429s'[c] = 0
                   /\ rate_limited_run' = 0
          /\ (UpstreamReturn(c, "429") /\ FollowsSuccess(c))
                => /\ rate_limited_run' = 1
                   /\ ~circuit_breaker_open'
                   /\ mpc'[c] = "backoff"]_vars

\* a call returned data while the breaker was open, which closed it, and the
\* next call is backing off from a RateLimited failure with the breaker closed
C25_Witness ==
    /\ mret.result = "data"
    /\ circuit_breaker_opened_at > 0
    /\ ~circuit_breaker_open
    /\ rate_limited_run = 1
    /\ \E c \in Callers : mpc[c] = "backoff" /\ error_msg[c] = "429" /\ attempt[c] = 0

-----------------------------------------------------------------------------
(* C26: a Transient (timeout/connection) or Permanent (any other) failure    *)
(* leaves the breaker as it is: it neither opens nor closes it, and the      *)
(* count of RateLimited failures of the fetch that goes on is the same after *)
(* the failure as before, whatever failures came before it.                  *)
C26_OnlyRateLimitedTouchesBreaker ==
    [][\A c \in Callers :
          (UpstreamReturn(c, "timeout") \/ UpstreamReturn(c, "error"))
             => /\ circuit_breaker_open' = circuit_breaker_open
                /\ circuit_breaker_opened_at' = circuit_breaker_opened_at
                /\ ~CallEnds(c) => consecutive_429s'[c] = consecutive_429s[c]]_vars

\* a fetch is backing off from a timeout that followed a RateLimited failure:
\* its count is still 1 and the breaker is closed
C26_Witness ==
    /\ ~circuit_breaker_open
    /\ \E c \in Callers :
          /\ mpc[c] = "backoff"
          /\ error_msg[c] = "timeout"
          /\ attempt[c] = 1
          /\ consecutive_429s[c] = 1

-----------------------------------------------------------------------------
(* C27: a fetch that finds the breaker open on entry returns None without    *)
(* consuming anything: the admission lock is not acquired or queued for, the *)
(* rate window, the last-call time and the registrations are unchanged, and  *)
(* the caller sleeps through no wait or backoff.                             *)
C27_RejectedFetchConsumesNothing ==
    [][\A c \in Callers :
          (MCPCall(c) /\ BreakerOpen)
             => /\ mret' = [caller |-> c, result |-> "None"]
                /\ UNCHANGED <<request_queue, last_request_time, reg_log,
                               global_request_lock, mpc, wake, rl_now, attempt,
                               circuit_breaker_open, circuit_breaker_opened_at>>]_vars

\* one call made two registrations and opened the breaker, the next call was
\* turned away: no third registration, nobody in the lock or asleep
C27_Witness ==
    /\ mcalls = 2
    /\ BreakerOpen
    /\ Len(reg_log) = OpenAfter429s
    /\ last_request_time = reg_log[OpenAfter429s]
    /\ mret.result = "None"
    /\ global_request_lock = NewLock
    /\ \A c \in Callers : mpc[c] = "idle"

-----------------------------------------------------------------------------
\* the callers whose upstream invocation starts in this step
InvocationsStarted == {c \in Callers : mpc[c] # "calling" /\ mpc'[c] = "calling"}

(* C28: in every attempt of every fetch the upstream invocation starts at    *)
(* the end of a rate-limiter wait, which registers the time at which the     *)
(* wait resolved: the step that starts an invocation starts one only and     *)
(* appends the current time to the window and to the registrations.  Every   *)
(* invocation started thus has a registration of its own, and the number of  *)
(* invocations started never exceeds the number of timestamps registered.    *)
C28_InvocationAfterRegistration ==
    [][/\ Cardinality(InvocationsStarted) <= 1
       /\ \A c \in InvocationsStarted :
             /\ \E q \in {request_queue, CleanOld(request_queue, now)} :
                   request_queue' = Append(q, now')
             /\ last_request_time' = now'
             /\ reg_log' = Logged(reg_log, now')]_vars

\* an invocation is under way whose timestamp was registered when its wait
\* for the minimum delay resolved, RequestDelay after the previous one
C28_Witness ==
    /\ \E c \in Callers : mpc[c] = "calling" /\ attempt[c] > 0
    /\ Len(reg_log) > 1
    /\ reg_log[Len(reg_log)] = now
    /\ reg_log[Len(reg_log)] - reg_log[Len(reg_log) - 1] = RequestDelay
    /\ request_queue[Len(request_queue)] = now
    /\ last_request_time = now

-----------------------------------------------------------------------------
(* C29: the backoff slept after a failed attempt depends on the kind of the  *)
(* failure and on the 0-based index a of the attempt: 20 * 2^a seconds after *)
(* a RateLimited failure (20, 40, 80), 5 * (a + 1) seconds after a Transient *)
(* one (5, 10, 15), 3 seconds after any other; the caller goes on only when  *)
(* that time has passed.                                                     *)
C29_BackoffByKindAndAttempt ==
    [][\A c \in Callers :
          /\ (UpstreamReturn(c, "429") /\ mpc'[c] = "backoff")
                => wake'[c] - now = <<20, 40, 80>>[attempt[c] + 1]
          /\ (UpstreamReturn(c, "timeout") /\ mpc'[c] = "backoff")
                => wake'[c] - now = <<5, 10, 15>>[attempt[c] + 1]
          /\ (UpstreamReturn(c, "error") /\ mpc'[c] = "backoff")
                => wake'[c] - now = 3
          /\ (mpc[c] = "backoff" /\ mpc'[c] # "backoff") => now >= wake[c]]_vars

\* a fetch whose third attempt was its first RateLimited failure is through
\* the 80 seconds of its backoff
C29_Witness ==
    \E c \in Callers :
       /\ mpc[c] = "backoff"
       /\ error_msg[c] = "429"
       /\ attempt[c] = 2
       /\ now = wake[c]
       /\ wake[c] - last_request_time = 80

-----------------------------------------------------------------------------
\* the last permitted attempt of caller c's fetch fails in this step
LastAttemptFails(c) ==
    /\ attempt[c] = MaxRetries - 1
    /\ \E outcome \in UpstreamOutcomes \ {"ok"} : UpstreamReturn(c, outcome)

(* C30: when the last permitted attempt of a fetch fails, the call returns   *)
(* None and releases the admission lock at once, without a further backoff   *)
(* sleep, whatever the kind of that failure.                                 *)
C30_NoBackoffAfterLastAttempt ==
    [][\A c \in Callers :
          LastAttemptFails(c)
             => /\ CallEnds(c)
                /\ mret' = [caller |-> c, result |-> "None"]
                /\ wake'[c] = 0
                /\ ~global_request_lock'.locked]_vars

-----------------------------------------------------------------------------
\* the callers inside the retry sequence of their call: asleep in a
\* rate-limiter wait or a backoff, or in the upstream invocation
InRetrySequence == {c \in Callers : mpc[c] \in Sleeping \cup {"calling"}}

(* C31: while one fetch sleeps in a retry backoff or in a rate-limiter wait  *)
(* no other fetch, of any key, is in or starts an upstream invocation or a   *)
(* wait of its own: the admission lock is held for the whole retry sequence  *)
(* of a call, and the others wait for it.                                    *)
C31_LockHeldAcrossRetries ==
    /\ Cardinality(InRetrySequence) <= 1
    /\ InRetrySequence # {} => global_request_lock.locked

\* a fetch is asleep in its backoff while another call, made meanwhile, is
\* waiting for the lock
C31_Witness ==
    \E c, d \in Callers :
       /\ mpc[c] = "backoff"
       /\ now < wake[c]
       /\ mpc[d] = "wait_lock"

-----------------------------------------------------------------------------
\* the time after its set() for which a value may be served as a hit: its
\* ttl in the hot tier, the freshness bound of get() in the persistent tier
ServedFor(ttl) ==
    IF ttl > MaxAgeHours * SecondsPerHour THEN ttl ELSE MaxAgeHours * SecondsPerHour

(* C32: a value stored after a fetch at time T is returned by get() only for *)
(* a bounded time after T: once its ttl and the persistent tier's 1-hour     *)
(* freshness bound have both passed, get() does not return it without a new  *)
(* set(), however often and whenever get() was called in between.            *)
C32_HitsEndAfterTTLAndHour ==
    (cache_ret.op = "get" /\ cache_ret.value # None /\ cache_ret.key \in DOMAIN stored)
        => now - stored[cache_ret.key].storedAt < ServedFor(stored[cache_ret.key].ttl)

-----------------------------------------------------------------------------
(* C33: CacheManager.get(key) never changes the persistent tier: a step that *)
(* is a get leaves the payload and the storedAt timestamp of every           *)
(* persistent entry as the last set() wrote them.                            *)
C33_GetLeavesPersistentTier ==
    [][cache_ret'.op = "get" => collection' = collection]_vars

-----------------------------------------------------------------------------
\* the latest operation was a get(key) that returned nothing although the
\* hot tier holds an entry of the key: that entry is past its ttl
MissedOnExpired ==
    /\ cache_ret.op = "get"
    /\ cache_ret.value = None
    /\ cache_ret.key \in DOMAIN cache

(* C34: get(key) does not delete an entry whose ttl has expired: a get that  *)
(* returns nothing leaves the hot tier as it was, and the stale lookup of    *)
(* the same key made immediately after it returns the expired entry's value. *)
C34_ExpiredEntrySurvivesGet ==
    [][/\ (cache_ret'.op = "get" /\ cache_ret'.value = None) => cache' = cache
       /\ ( /\ MissedOnExpired
            /\ cache_ret'.op = "get_stale"
            /\ cache_ret'.key = cache_ret.key )
             => /\ cache_ret'.value = cache[cache_ret.key].data
                /\ cache_ret'.timestamp = cache[cache_ret.key].timestamp
                /\ cache' = cache]_vars

\* a get has just returned nothing for a key whose hot entry, stored by a
\* set, is past its ttl and still there
C34_Witness ==
    /\ MissedOnExpired
    /\ cache_ret.key \in DOMAIN stored
    /\ cache[cache_ret.key].data = stored[cache_ret.key].data
    /\ now - cache[cache_ret.key].timestamp >= cache[cache_ret.key].ttl

-----------------------------------------------------------------------------
\* the hot tier holds the default of the key's endpoint, stored with the
\* 60-second ttl less than 60 seconds ago
NegativeEntry(key) ==
    /\ key \in DOMAIN cache
    /\ cache[key].data = DefaultResponse(key)
    /\ cache[key].ttl = DefaultTTL
    /\ now - cache[key].timestamp < DefaultTTL

\* the fetch of caller c ends in this step with the default, after
\* call_tool_with_retry returned None to it
DefaultAfterNoResult(c) ==
    /\ mpc[c] # "idle" /\ mpc'[c] = "idle"
    /\ mret'.result = "None"
    /\ \/ fkey[c] = "" /\ task'[c].state = "done" /\ task'[c].outcome = "default"
       \/ fkey[c] # "" /\ fret'.caller = c /\ fret'.op = "default"

(* C35: negative caching.  When a fetch yields no result and there is no     *)
(* stale data, the endpoint's default is stored in the hot tier with a ttl   *)
(* of 60 seconds, and every request of the key made in the following 60      *)
(* seconds is answered from the cache without any call of the manager, for   *)
(* each of the data endpoints, get_coins_markets included.                   *)
C35_NegativeCaching ==
    [][\A c \in Callers :
          /\ DefaultAfterNoResult(c)
                => LET key == IF fkey[c] = "" THEN task[c].key ELSE fkey[c] IN
                     /\ key \in DOMAIN cache'
                     /\ cache'[key] = [data |-> DefaultResponse(key), timestamp |-> now,
                                       ttl |-> DefaultTTL]
          /\ \A key \in Keys \cup DirectKeys :
                (EndpointCall(c, key) /\ NegativeEntry(key))
                   => /\ fret' = [caller |-> c, op |-> "hit", key |-> key,
                                  value |-> DefaultResponse(key)]
                      /\ UNCHANGED <<request_queue, reg_log, global_request_lock, mpc,
                                     mcalls>>]_vars


-----------------------------------------------------------------------------
\* the endpoints with an upstream that can also answer an empty object or list
NextPayload ==
    \/ NextFetch
    \/ \E c \in Callers : FetchUpstreamReturn(c, "empty", TRUE)

SpecPayload == InitWithStore /\ [][NextPayload]_vars

\* the key of the fetch that caller c runs
FetchKey(c) == IF fkey[c] = "" THEN task[c].key ELSE fkey[c]

\* what the fetch of caller c, ending in this step, hands to its caller and how
FetchOp(c) == IF fkey[c] = "" THEN task'[c].outcome ELSE fret'.op
FetchValue(c) == IF fkey[c] = "" THEN tval'[c] ELSE fret'.value

(* C36: every upstream invocation that completes successfully during a       *)
(* fetch is followed by a store of its result in the hot tier under the      *)
(* fetch's key and by the return of that result, whatever JSON payload the   *)
(* upstream returned, the empty object or list included; the stale fallback  *)
(* is never taken after a successful invocation.                             *)
C36_SuccessStoredAndReturned ==
    [][\A c \in Callers, outcome \in Successes :
          FetchUpstreamReturn(c, outcome, TRUE)
             => /\ FetchOp(c) # "stale"
                /\ FetchKey(c) \in DOMAIN cache'
                /\ cache'[FetchKey(c)].timestamp = now
                /\ cache'[FetchKey(c)].data = FetchValue(c)]_vars


-----------------------------------------------------------------------------
\* the callers whose miss of `key` is inside call_tool_with_retry, waiting for
\* the global lock or past it
InPipeline(key) ==
    {c \in Callers : mpc[c] # "idle" /\ key = (IF fkey[c] # "" THEN fkey[c] ELSE task[c].key)}

(* C37: for every data endpoint a cache miss reaches mcp_manager only from   *)
(* inside debounced_request, and for every key, the coins/markets keys       *)
(* included, at most one fetch of the key is executing or waiting for        *)
(* admission at any instant.                                                 *)
C37_OneFetchPerKeyInPipeline ==
    /\ \A c \in Callers : mpc[c] # "idle" => dpc[c] # "idle"
    /\ \A key \in Keys \cup DirectKeys : Cardinality(InPipeline(key)) <= 1


-----------------------------------------------------------------------------
NoFetchInProgress == \A c \in Callers : ~Busy(c)

(* C38: whenever no fetch is in progress, the global admission lock and      *)
(* every per-key lock are free and _active_requests is empty: a fetcher or   *)
(* an upstream call that raises leaves no lock held and no registration      *)
(* behind.  The same holds piecewise: the global lock is free when no caller *)
(* is inside call_tool_with_retry, and a key has a free lock and no          *)
(* registration when no caller is inside debounced_request for it.           *)
C38_IdleLeavesNothingHeld ==
    /\ NoFetchInProgress
          => /\ LockFree(global_request_lock)
             /\ \A key \in DOMAIN request_locks : LockFree(request_locks[key])
             /\ active_requests = << >>
    /\ (\A c \in Callers : mpc[c] = "idle") => LockFree(global_request_lock)
    /\ \A key \in Keys :
          InFlight(key) = {}
             => /\ key \notin DOMAIN active_requests
                /\ key \in DOMAIN request_locks => LockFree(request_locks[key])

\* a debounced fetch whose upstream calls raised has ended and nothing is in
\* progress
C38_Witness ==
    /\ NoFetchInProgress
    /\ fret.op \in {"default", "stale"}
    /\ fret.key \in DOMAIN request_locks
    /\ mret.result = "None"
    /\ mret.caller = fret.caller
    /\ reg_log # << >>


-----------------------------------------------------------------------------
\* the process starts over a store in which a previous run left the global
\* market data
InitSweep ==
    /\ InitWithStore
    /\ DOMAIN collection = {generate_cache_key("global_market_data", NoParams)}

\* the cache driven by the endpoints over what the previous run left: they
\* store a fresh response with the ttl of its endpoint or the default with the
\* 60-second ttl, look up, call clear, and time passes
NextSweep ==
    \/ \E key \in Keys : \E fails \in StoreFailures(TRUE) :
          CacheSet(key, FreshResponse(key), FreshTTL(key), fails)
    \/ \E key \in Keys : CacheSet(key, DefaultResponse(key), DefaultTTL, FALSE)
    \/ \E key \in Keys :
          \E get_fails \in StoreFailures(~HotFresh(cache, key, now)) :
          \E set_fails \in StoreFailures(~HotFresh(cache, key, now) /\ ~get_fails) :
             CacheGet(key, get_fails, set_fails)
    \/ \E key \in Keys :
          \E fails \in StoreFailures(key \notin DOMAIN cache) : CacheGetStale(key, fails)
    \/ CacheClear
    \/ CacheTick

SpecSweep == InitSweep /\ [][NextSweep]_vars

\* the persistent entries stored more than MaxStaleDays before t
OlderThanMaxAge(coll, t) ==
    {i \in DOMAIN coll : t - coll[i].timestamp > MaxStaleDays * SecondsPerDay}

(* C39: clear_expired(maxAgeDays), as CacheManager.clear calls it, deletes   *)
(* exactly the persistent entries whose timestamp is older than              *)
(* now - maxAgeDays and leaves every other persistent entry unchanged, with  *)
(* its document and timestamp; when the store raises during the sweep        *)
(* nothing is deleted, and no sweep deletes or changes a younger entry.      *)
C39_SweepDeletesExactlyOlder ==
    [][/\ CacheClearWith(FALSE)
             => /\ DOMAIN collection' = DOMAIN collection \ OlderThanMaxAge(collection, now)
                /\ \A i \in DOMAIN collection' : collection'[i] = collection[i]
       /\ cache_ret'.op = "clear"
             => /\ DOMAIN collection' \subseteq DOMAIN collection
                /\ \A i \in DOMAIN collection \ OlderThanMaxAge(collection, now) :
                      i \in DOMAIN collection' /\ collection'[i] = collection[i]]_vars

\* a sweep has run: an entry persisted more than a day ago is gone and an
\* entry that is exactly a day old is still there
C39_Witness ==
    /\ cache_ret.op = "clear"
    /\ \E key \in DOMAIN stored :
          /\ stored[key].ttl > PersistMinTTL
          /\ now - stored[key].storedAt > MaxStaleDays * SecondsPerDay
          /\ generate_cache_key(key, NoParams) \notin DOMAIN collection
    /\ \E i \in DOMAIN collection :
          now - collection[i].timestamp = MaxStaleDays * SecondsPerDay


-----------------------------------------------------------------------------
(* ChromaPersistentCache called with parameters: set(endpoint, data, params) *)
(* and get(endpoint, params) for every order in which a caller can give the  *)
(* parameters of an endpoint.                                                *)

MaxKeySets == 2

\* max_age_hours of get when the caller gives none
DefaultMaxAgeHours == 24

KeyEndpoints == {"top_gainers_losers"}

\* the value a caller gives to each parameter
ParamValues == [duration |-> "24h", top_coins |-> "1000", vs_currency |-> "usd"]

ParamPairs == {<<SortedNames[i], ParamValues[SortedNames[i]]>> : i \in DOMAIN SortedNames}

\* the dicts a caller can build: each name at most once, in any order
ParamItems ==
    {s \in UNION {[1..n -> ParamPairs] : n \in 0..Len(SortedNames)} :
        \A i, j \in DOMAIN s : i # j => s[i][1] # s[j][1]}

\* what a caller can pass as params: nothing, or a dict
ParamArgs == {NoParams} \cup {Dict(s) : s \in ParamItems}

\* the (name, value) pairs of a params argument
PairsOf(params) == {params.items[i] : i \in DOMAIN params.items}

\* chroma_cache.set(endpoint, data, params)
KeySet(endpoint, params, data) ==
    /\ sets < MaxKeySets
    /\ collection' = ChromaPersistentCache_set_params(collection, chroma_available, endpoint,
                                                      data, params, now, FALSE)
    /\ stored' = [k \in DOMAIN stored \cup {endpoint} |->
                    IF k = endpoint
                    THEN [data |-> data, storedAt |-> now, params |-> params]
                    ELSE stored[k]]
    /\ sets' = sets + 1
    /\ cache_ret' = [NoRet EXCEPT !.op = "set", !.key = endpoint, !.value = data]
    /\ UNCHANGED <<now, ticks, cache, chroma_available>>
    /\ UNCHANGED <<debounceVars, mcpVars, fetchVars>>

\* chroma_cache.get(endpoint, params).  A lookup changes nothing in the store:
\* the lookups that follow a set show them all.
KeyGet(endpoint, params) ==
    /\ cache_ret.op = "set"
    /\ cache_ret' = [op |-> "get", key |-> endpoint,
                     value |-> ChromaPersistentCache_get_params(
                                   collection, chroma_available, endpoint, params,
                                   DefaultMaxAgeHours, now, FALSE),
                     timestamp |-> 0, failed |-> FALSE, params |-> params]
    /\ UNCHANGED <<now, ticks, cache, collection, chroma_available, stored, sets>>
    /\ UNCHANGED <<debounceVars, mcpVars, fetchVars>>

NextKey ==
    \/ \E endpoint \in KeyEndpoints, params \in ParamArgs, data \in Payloads :
          KeySet(endpoint, params, data)
    \/ \E endpoint \in KeyEndpoints, params \in ParamArgs : KeyGet(endpoint, params)

SpecKey == InitWithChroma /\ [][NextKey]_vars

\* two params arguments give the same parameters: the same pairs, in any
\* order; no argument counts as the empty dict
SameParams(p, q) == PairsOf(p) = PairsOf(q)

(* C40: the cache key is a function of the endpoint and the set of parameter *)
(* pairs: two requests of the same endpoint with the same parameters have    *)
(* the same key whatever the order in which the parameters were given, and   *)
(* absent parameters have the key of an empty dict.  What set stores under   *)
(* one way of giving the parameters, get finds under every other way.        *)
C40_KeyIgnoresOrder ==
    [][\A endpoint \in KeyEndpoints :
          /\ (cache_ret'.op = "set" /\ cache_ret'.key = endpoint)
                => LET p == stored'[endpoint].params
                       data == stored'[endpoint].data
                   IN \A q \in ParamArgs :
                         SameParams(p, q)
                            => /\ generate_cache_key(endpoint, q) = generate_cache_key(endpoint, p)
                               /\ ChromaPersistentCache_get_params(
                                      collection', chroma_available, endpoint, q,
                                      DefaultMaxAgeHours, now, FALSE) = make_serializable(data)
          /\ (cache_ret'.op = "get" /\ cache_ret'.key = endpoint)
                => \A q \in ParamArgs :
                      (SameParams(cache_ret'.params, q)
                          /\ generate_cache_key(endpoint, q) \in DOMAIN collection)
                         => cache_ret'.value = collection[generate_cache_key(endpoint, q)].document]_vars

\* a get has found what the last set stored, with the same two or more
\* parameters given in another order
C40_Witness ==
    /\ cache_ret.op = "get"
    /\ cache_ret.value # None
    /\ cache_ret.key \in DOMAIN stored
    /\ LET given == stored[cache_ret.key].params IN
         /\ Len(given.items) >= 2
         /\ SameParams(given, cache_ret.params)
         /\ given.items # cache_ret.params.items
         /\ cache_ret.value = make_serializable(stored[cache_ret.key].data)

====
